---- MODULE Spec2Model ----
(***************************************************************************)
(* CortexKey brainwave authenticator (src/CortexKey-Python/                *)
(* brainwave_auth.py): the acquisition loop SerialCollector.stream with    *)
(* its hardware/synthetic source, and the signature codec of               *)
(* BrainwaveProcessor.                                                     *)
(*                                                                         *)
(* Time is counted in ticks of one millisecond.  The pacing clock of the   *)
(* synthetic source is kept as `late`, the value of                        *)
(*     time.time() - (start_time + expected_sample_count*sample_interval)  *)
(* which is all the loop ever reads of start_time and of the wall clock;   *)
(* it is tracked up to MaxLate ticks.                                      *)
(***************************************************************************)
EXTENDS Integers, Sequences, FiniteSets, TLC

\* ------------------------------------------------------------- bounds
MaxWindow == 3
MaxSamples == 5
SampleInterval == 2
MaxLate == 3
MaxOversleep == 2
MaxIndex == 2
MaxFailures == 1

\* -------------------------------------------------- program constants
MaxReconnectAttempts == 10
MaxRetries == 3
SleepThreshold == 1

VARIABLES
    pc,                     \* where main() is: constructed, connected, streaming, stopped, error
    window_size,            \* SerialCollector.window_size
    step_size,              \* SerialCollector.step_size
    port,                   \* SerialCollector.port: "none" or "set"
    has_serial,             \* HAS_SERIAL: the pyserial import succeeded
    use_mock,               \* SerialCollector.use_mock
    hardware_available,     \* SerialCollector.hardware_available
    ser,                    \* SerialCollector.ser: "none", "open" or "closed"
    reconnect_attempts,     \* SerialCollector._reconnect_attempts
    sample_count,           \* SerialCollector._sample_count
    buffer,                 \* stream(): deque(maxlen=window_size)
    samples_since_last,     \* stream(): samples_since_last
    signatures_generated,   \* stream(): signatures_generated
    expected_sample_count,  \* stream(): expected_sample_count (kept in 0..MaxIndex)
    mode_str,               \* stream(): mode_str, the label written with each line ("none" before)
    late,                   \* stream(): time.time() - target time of expected_sample_count
    compute_calls,          \* history: calls of processor.compute_features made by stream()
    lines_written,          \* history: lines appended to the output file by this stream() call
    failed_windows,         \* history: window transforms that raised
    last_emit,              \* history: the window of the latest emitted signature
    prev_emit,              \* history: the window of the emission before it
    last_read,              \* history: what ser.readline() did in the latest loop iteration ("none": no read)
    out_handle,             \* stream(): out_handle: "none" (no output_file), "pending" (not opened yet), "open", "closed"
    last_window,            \* history: how the window transform of the latest loop iteration ended ("none": not run)
    last_check,             \* history: the signal-quality check of the latest loop iteration (NoCheck: not run)
    last_connect,           \* history: what connect() did in the latest step of main() (NoConnect: not called)
    line,                   \* history: the bytes ser.readline() returned in the latest loop iteration
    parsed,                 \* stream(): parsed, what parse_line returned in the latest loop iteration (None: not called)
    iterations,             \* history: parity of the number of steps main() has taken
    processor,              \* BrainwaveProcessor instances: passphrase, key, salt of each
    entropy,                \* number of os.urandom() calls made so far
    sealed,                 \* history: the encrypt_signature calls of the session, in order
    aead_log,               \* history: every AESGCM.encrypt made: key, nonce, plaintext, ciphertext
    last_verify,            \* history: the latest verify_signature call and what it returned
    args,                   \* main(): args, the parsed command line
    mock_mode,              \* MockDataGenerator.mode of the collector's generator
    tx,                     \* history: the commands written to the port by set_mock_mode, in order
    quality,                \* history: the samples get_signal_quality was called with and what it returned
    in_flight,              \* history: the windows whose transform has begun and not ended
    drain,                  \* _flush_startup: its clock, the lines it has read, and how it ended
    reader,                 \* backend SerialReader: its fields, its lock, the reader thread and one calling thread
    svc,                    \* backend SerialReader under start(), stop() and connect(): its fields, the read-loop threads, the calling threads
    push,                   \* backend app: auth_state, _push_running, the _push_loop threads, the request handlers
    last_set                \* history: the latest set_mock_mode call (n: how many so far) and how it ended

stream_vars ==
    <<pc, window_size, step_size, port, has_serial, use_mock, hardware_available,
      ser, reconnect_attempts, sample_count, buffer, samples_since_last,
      signatures_generated, expected_sample_count, mode_str, late, compute_calls,
      lines_written, failed_windows, last_emit, prev_emit, last_read, out_handle, last_window, last_check,
      last_connect, line, parsed>>

crypto_vars == <<processor, entropy, sealed, aead_log, last_verify>>

host_vars == <<args, mock_mode, tx, last_set, quality, in_flight, drain, reader, svc, push>>

vars == <<stream_vars, iterations, crypto_vars, host_vars>>

Min(a, b) == IF a < b THEN a ELSE b

Raise(exc) == [raised |-> TRUE, exc |-> exc, value |-> <<>>]
Return(v) == [raised |-> FALSE, exc |-> "", value |-> v]

NoEmit == [win |-> <<>>, fails |-> 0]
NoCheck == [ran |-> FALSE, over |-> <<>>]

\* parse_line returning None, and returning (timestamp, samples).
None == [ok |-> FALSE, timestamp |-> [kind |-> "none", m |-> 0, e |-> 0], samples |-> <<>>]
Parsed(timestamp, samples) == [ok |-> TRUE, timestamp |-> timestamp, samples |-> samples]

NoConnect ==
    [called |-> FALSE, detect |-> FALSE, opened |-> FALSE, tried |-> 0, sleeps |-> <<>>]

\* Wall-clock time passing by d ticks (the model follows it up to MaxLate).
Advance(l, d) == Min(l + d, MaxLate)

\* expected_sample_count += 1, the index kept in 1..MaxIndex once it has started.
NextIndex(k) == IF k >= MaxIndex THEN 1 ELSE k + 1

\* SerialCollector._validate_inputs: the configurations that construct.
ValidConfig(w, s) == w > 0 /\ s > 0 /\ s <= w

\* Frequencies are counted in half hertz: DEFAULT_FS is 256.0 Hz, the bands
\* are (0.5, 4), (4, 8), (8, 12), (12, 30) and (30, 45) Hz.
DEFAULT_FS == 512
DEFAULT_BANDS == {<<1, 8>>, <<8, 16>>, <<16, 24>>, <<24, 60>>, <<60, 90>>}
MOCK_AUTH_MODE == "authenticated"
MOCK_IMPOSTOR_MODE == "impostor"

\* The command line of a run with every option left at its default.
DefaultArgs ==
    [fs |-> DEFAULT_FS, passphrase |-> <<116, 49>>, bands |-> DEFAULT_BANDS,
     window |-> 2, step |-> 1, baud |-> 115200, port |-> "none", mock |-> FALSE,
     mock_mode |-> MOCK_AUTH_MODE]

\* backend SerialReader.__init__ (serial_reader.py): an empty deque, a free
\* lock, no thread, mock mode "auth"; no call in progress.
NewReader ==
    [buffer |-> <<>>, lock |-> "free", mock_mode |-> "auth", use_mock |-> TRUE,
     hardware_mode |-> FALSE, connected |-> FALSE, running |-> FALSE,
     rpc |-> "none", sample |-> "", cpc |-> "idle", op |-> "none", n |-> 0,
     result |-> [kind |-> "none", value |-> <<>>], accesses |-> {}]

\* The threads followed: read-loop threads of the SerialReader, _push_loop
\* threads of the app, and request handlers running at the same time.
MaxLoops == 2
MaxPushers == 2
MaxHandlers == 2
Loops == 1..MaxLoops
Pushers == 1..MaxPushers
Handlers == 1..MaxHandlers

\* backend SerialReader.__init__ (serial_reader.py), with the threads that
\* use it: no serial object, no thread, mock data selected, not connected.
NewService ==
    [use_mock |-> TRUE, hardware_mode |-> FALSE, connected |-> FALSE,
     running |-> FALSE, serial |-> "none", thread |-> 0, buffer |-> <<>>,
     loops |-> [t \in Loops |-> "none"],
     handlers |-> [h \in Handlers |-> "idle"],
     last |-> "none", ret |-> "none", fallen |-> FALSE, settled |-> FALSE]

\* backend app.py at import: auth_state idle, _push_running False, no
\* _push_loop thread.
NoPush ==
    [status |-> "idle", running |-> FALSE, chunks |-> 0, decided |-> 0,
     loops |-> [t \in Pushers |-> "none"],
     handlers |-> [h \in Handlers |-> "idle"]]

NoDrain == [clock |-> 0, log |-> <<>>, cause |-> "none"]
NoSet == [n |-> 0, mode |-> "", raised |-> FALSE, cmd |-> "", failed |-> FALSE]

\* No mode switch requested so far.
HostRest ==
    /\ tx = <<>>
    /\ last_set = NoSet
    /\ quality = [called |-> FALSE, samples |-> <<>>, info |-> <<>>]
    /\ in_flight = {}
    /\ drain = NoDrain
    /\ reader = NewReader
    /\ svc = NewService
    /\ push = NoPush

\* A collector constructed by main() with the default options, forced to
\* synthetic data, and its processors; nothing called yet.
Constructed ==
    /\ pc = "constructed"
    /\ window_size = 1
    /\ step_size = 1
    /\ port = "none"
    /\ has_serial = TRUE
    /\ use_mock = TRUE
    /\ hardware_available = FALSE
    /\ ser = "none"
    /\ reconnect_attempts = 0
    /\ sample_count = 0
    /\ buffer = <<>>
    /\ samples_since_last = 0
    /\ signatures_generated = 0
    /\ expected_sample_count = 0
    /\ mode_str = "none"
    /\ late = 0
    /\ compute_calls = 0
    /\ failed_windows = 0
    /\ lines_written = 0
    /\ last_emit = NoEmit
    /\ prev_emit = NoEmit
    /\ last_read = "none"
    /\ line = <<>>
    /\ parsed = None
    /\ out_handle = "none"
    /\ last_window = "none"
    /\ last_check = NoCheck
    /\ last_connect = NoConnect
    /\ iterations = 0
    /\ args = DefaultArgs
    /\ mock_mode = MOCK_AUTH_MODE

\* The collector's surroundings while main() is past its construction.
HostIdle ==
    /\ args = DefaultArgs
    /\ mock_mode = MOCK_AUTH_MODE
    /\ HostRest

StreamInit ==
    /\ pc = "constructed"
    /\ window_size \in 1..MaxWindow
    /\ step_size \in 1..MaxWindow
    /\ ValidConfig(window_size, step_size)
    /\ port \in {"none", "set"}
    /\ has_serial \in BOOLEAN
    /\ use_mock \in BOOLEAN
    /\ hardware_available = FALSE
    /\ ser = "none"
    /\ reconnect_attempts = 0
    /\ sample_count = 0
    /\ buffer = <<>>
    /\ samples_since_last = 0
    /\ signatures_generated = 0
    /\ expected_sample_count = 0
    /\ mode_str = "none"
    /\ late = 0
    /\ compute_calls = 0
    /\ failed_windows = 0
    /\ lines_written = 0
    /\ last_emit = NoEmit
    /\ prev_emit = NoEmit
    /\ last_read = "none"
    /\ line = <<>>
    /\ parsed = None
    /\ out_handle \in {"none", "pending"}
    /\ last_window = "none"
    /\ last_check = NoCheck
    /\ last_connect = NoConnect
    /\ HostIdle

\* A tumbling buffer: a full buffer is cleared instead of sliding.
DequeAppend_Tumbling(buf, x, maxlen) ==
    IF Len(buf) < maxlen THEN Append(buf, x) ELSE <<x>>

\* collections.deque(maxlen=window_size).append(x)
DequeAppend(buf, x, maxlen) ==
    IF Len(buf) < maxlen THEN Append(buf, x) ELSE Append(Tail(buf), x)

\* The step test off by one.
Ready_OffByOne(buf, since) == Len(buf) = window_size /\ since > step_size

\* The step test alone, the buffer not required to be full.
Ready_NotFull(buf, since) == since >= step_size

\* stream(): ready = len(buffer) == window_size and samples_since_last >= step_size
Ready(buf, since) == Len(buf) = window_size /\ since >= step_size

\* ------------------------------------------------------------------------
\* SerialCollector.parse_line.  A str is a sequence of one-character
\* strings; a line of the wire is a sequence of bytes, an ASCII byte written
\* as its character and a byte outside ASCII as "0x80".
\* ------------------------------------------------------------------------
MaxFields == 3
MaxSwitches == 3
MaxQuality == 2
\* The interval of the quality check and the span it looks at, both 250 in
\* the program, are scaled to the runs the model follows.
QualityCheckInterval == 2
QualitySpan == 2

Whitespace == {" ", "\t", "\n", "\r"}

LowerCase ==
    <<"a", "b", "c", "d", "e", "f", "g", "h", "i", "j", "k", "l", "m",
      "n", "o", "p", "q", "r", "s", "t", "u", "v", "w", "x", "y", "z">>

UpperCase ==
    <<"A", "B", "C", "D", "E", "F", "G", "H", "I", "J", "K", "L", "M",
      "N", "O", "P", "Q", "R", "S", "T", "U", "V", "W", "X", "Y", "Z">>

DigitChars == <<"0", "1", "2", "3", "4", "5", "6", "7", "8", "9">>

\* bytes.decode("ascii", errors="ignore"): the bytes outside ASCII are left out.
IsAscii(b) == b # "0x80"
decode_ascii(bytes) == SelectSeq(bytes, IsAscii)

RECURSIVE lstrip(_)
lstrip(s) == IF s # <<>> /\ Head(s) \in Whitespace THEN lstrip(Tail(s)) ELSE s

RECURSIVE rstrip(_)
rstrip(s) ==
    IF s # <<>> /\ s[Len(s)] \in Whitespace
    THEN rstrip(SubSeq(s, 1, Len(s) - 1))
    ELSE s

\* str.strip()
strip(s) == rstrip(lstrip(s))

IsLower(c) == \E i \in 1..26 : LowerCase[i] = c
IsUpper(c) == \E i \in 1..26 : UpperCase[i] = c
upper_char(c) ==
    IF IsLower(c) THEN UpperCase[CHOOSE i \in 1..26 : LowerCase[i] = c] ELSE c
lower_char(c) ==
    IF IsUpper(c) THEN LowerCase[CHOOSE i \in 1..26 : UpperCase[i] = c] ELSE c

\* str.upper(), str.lower()
upper(s) == [i \in 1..Len(s) |-> upper_char(s[i])]
lower(s) == [i \in 1..Len(s) |-> lower_char(s[i])]

\* str.startswith(prefix)
startswith(s, prefix) ==
    Len(s) >= Len(prefix) /\ SubSeq(s, 1, Len(prefix)) = prefix

\* The first index of s holding a character of cs, 0 when there is none.
find(s, cs) ==
    IF \E i \in 1..Len(s) : s[i] \in cs
    THEN CHOOSE i \in 1..Len(s) :
             s[i] \in cs /\ \A j \in 1..(i - 1) : s[j] \notin cs
    ELSE 0

RECURSIVE split(_, _)
\* str.split(sep)
split(s, sep) ==
    LET k == find(s, {sep})
    IN  IF k = 0
        THEN <<s>>
        ELSE <<SubSeq(s, 1, k - 1)>> \o split(SubSeq(s, k + 1, Len(s)), sep)

IsDigit(c) == \E i \in 1..10 : DigitChars[i] = c
DigitValue(c) == (CHOOSE i \in 1..10 : DigitChars[i] = c) - 1

\* float(): a digit part is digits with single underscores between them.
IsDigitPart(s) ==
    /\ s # <<>>
    /\ IsDigit(s[1])
    /\ IsDigit(s[Len(s)])
    /\ \A i \in 1..Len(s) : IsDigit(s[i]) \/ s[i] = "_"
    /\ \A i \in 1..(Len(s) - 1) : ~(s[i] = "_" /\ s[i + 1] = "_")

RECURSIVE IntOf(_)
\* The number a digit part writes.
IntOf(s) ==
    IF s = <<>> THEN 0
    ELSE IF s[Len(s)] = "_" THEN IntOf(SubSeq(s, 1, Len(s) - 1))
    ELSE 10 * IntOf(SubSeq(s, 1, Len(s) - 1)) + DigitValue(s[Len(s)])

DigitCount(s) == Len(SelectSeq(s, IsDigit))

HasSign(s) == s # <<>> /\ s[1] \in {"+", "-"}
Unsigned(s) == IF HasSign(s) THEN Tail(s) ELSE s
SignOf(s) == IF s # <<>> /\ s[1] = "-" THEN -1 ELSE 1

\* float(): the text before and after the exponent marker, and the text
\* before and after the decimal point of the mantissa.
MantissaOf(u) ==
    IF find(u, {"e", "E"}) = 0 THEN u ELSE SubSeq(u, 1, find(u, {"e", "E"}) - 1)
ExponentOf(u) == SubSeq(u, find(u, {"e", "E"}) + 1, Len(u))
IntPart(m) == IF find(m, {"."}) = 0 THEN m ELSE SubSeq(m, 1, find(m, {"."}) - 1)
FracPart(m) == IF find(m, {"."}) = 0 THEN <<>> ELSE SubSeq(m, find(m, {"."}) + 1, Len(m))

IsMantissa(m) ==
    IF find(m, {"."}) = 0
    THEN IsDigitPart(m)
    ELSE /\ IntPart(m) = <<>> \/ IsDigitPart(IntPart(m))
         /\ FracPart(m) = <<>> \/ IsDigitPart(FracPart(m))
         /\ IntPart(m) # <<>> \/ FracPart(m) # <<>>

IsDecimal(u) ==
    /\ IsMantissa(MantissaOf(u))
    /\ find(u, {"e", "E"}) # 0 => IsDigitPart(Unsigned(ExponentOf(u)))

RECURSIVE Normal(_, _)
\* The number m * 10^e, written with m not a multiple of 10 (0 as 0 * 10^0).
Normal(m, e) ==
    IF m = 0 THEN [kind |-> "number", m |-> 0, e |-> 0]
    ELSE IF m % 10 = 0 THEN Normal(m \div 10, e + 1)
    ELSE [kind |-> "number", m |-> m, e |-> e]

\* The value of a decimal text without its sign.
DecimalValue(u) ==
    Normal(IntOf(IntPart(MantissaOf(u)) \o FracPart(MantissaOf(u))),
           (IF find(u, {"e", "E"}) = 0
            THEN 0
            ELSE SignOf(ExponentOf(u)) * IntOf(Unsigned(ExponentOf(u))))
               - DigitCount(FracPart(MantissaOf(u))))

Negated(v, sign) == [kind |-> v.kind, m |-> sign * v.m, e |-> v.e]

\* float(x) of a str: a signed decimal with an optional exponent, or an
\* infinity or a NaN by name; any other text raises ValueError.
float(x) ==
    LET u == Unsigned(strip(x))
    IN  IF lower(u) \in {<<"i", "n", "f">>,
                         <<"i", "n", "f", "i", "n", "i", "t", "y">>}
        THEN Return([kind |-> "inf", m |-> SignOf(strip(x)), e |-> 0])
        ELSE IF lower(u) = <<"n", "a", "n">>
        THEN Return([kind |-> "nan", m |-> 0, e |-> 0])
        ELSE IF IsDecimal(u)
        THEN Return(Negated(DecimalValue(u), SignOf(strip(x))))
        ELSE Raise("ValueError")

ControlPrefixes ==
    {<<"C", "M", "D", ":">>, <<"S", "T", "A", "T", "U", "S", ":">>,
     <<"E", "R", "R", "O", "R", ":">>, <<"I", "N", "F", "O", ":">>}

DataPrefixes == <<<<"D", "A", "T", "A", ":">>, <<"D", "A", "T", "A", "|">>>>

RECURSIVE strip_prefix(_, _)
\* parse_line, lines 724-727: for prefix in ("DATA:", "DATA|"), from the
\* k-th prefix on: the first prefix the line starts with is cut off.
strip_prefix(text, k) ==
    IF k > Len(DataPrefixes) THEN text
    ELSE IF startswith(upper(text), DataPrefixes[k])
    THEN SubSeq(text, Len(DataPrefixes[k]) + 1, Len(text))
    ELSE strip_prefix(text, k + 1)

NonEmpty(s) == s # <<>>

\* Every field is kept whatever it holds.
parts_KeepsEmpty(text) ==
    LET fields == split(text, ",")
    IN  [i \in 1..Len(fields) |-> strip(fields[i])]

\* parse_line, line 730: [x.strip() for x in line.split(",") if x.strip()]
parts(text) ==
    LET fields == split(text, ",")
    IN  SelectSeq([i \in 1..Len(fields) |-> strip(fields[i])], NonEmpty)

\* parse_line, lines 729-737: the try block over the fields.
parse_parts(p) ==
    LET floats == [i \in 1..Len(p) |-> float(p[i])]
    IN  IF Len(p) < 2 THEN None
        ELSE IF \E i \in 1..Len(p) : floats[i].raised THEN None
        ELSE Parsed(floats[1].value,
                    [i \in 1..(Len(p) - 1) |-> floats[i + 1].value])

\* No control test, and any label up to the first colon cut off as a data
\* prefix is.
parse_line_CutsAnyLabel(text) ==
    LET stripped == strip(text)
    IN  IF stripped = <<>> THEN None
        ELSE parse_parts(parts(SubSeq(stripped, find(stripped, {":"}) + 1,
                                      Len(stripped))))

\* SerialCollector.parse_line(line)
parse_line(text) ==
    LET stripped == strip(text)
    IN  IF stripped = <<>> THEN None
        ELSE IF \E c \in ControlPrefixes : startswith(upper(stripped), c) THEN None
        ELSE parse_parts(parts(strip_prefix(stripped, 1)))

\* connect(): the seconds slept between the failed attempts before attempt
\* `opened` (time.sleep(2**attempt) after every failed attempt but the last).
BackoffBefore(opened) ==
    LET RECURSIVE Sum(_)
        Sum(a) == IF a >= Min(opened, MaxRetries - 1) THEN 0 ELSE 2^a + Sum(a + 1)
    IN  Sum(0)

RECURSIVE connect_loop(_, _, _)

\* The retry loop sleeping after its last failed attempt as well.
connect_loop_SleepsAfterLast(attempt, opened, sleeps) ==
    IF attempt >= MaxRetries
    THEN [opened |-> FALSE, tried |-> attempt, sleeps |-> sleeps]
    ELSE IF attempt = opened
    THEN [opened |-> TRUE, tried |-> attempt + 1, sleeps |-> sleeps]
    ELSE connect_loop(attempt + 1, opened, Append(sleeps, 2^attempt))

\* connect(), lines 649-671: for attempt in range(max_retries), from the
\* given attempt on.  opened: the attempt at which serial.Serial() returns;
\* sleeps: the seconds of every time.sleep(2**attempt) made so far.
connect_loop(attempt, opened, sleeps) ==
    IF attempt >= MaxRetries
    THEN [opened |-> FALSE, tried |-> attempt, sleeps |-> sleeps]
    ELSE IF attempt = opened
    THEN [opened |-> TRUE, tried |-> attempt + 1, sleeps |-> sleeps]
    ELSE connect_loop(attempt + 1, opened,
                      IF attempt < MaxRetries - 1
                      THEN Append(sleeps, 2^attempt)
                      ELSE sleeps)

\* What a connect() call did: whether _auto_detect_port() ran, and the
\* attempts and sleeps of the retry loop r (no loop: nothing tried).
Connected(detect, r) ==
    [called |-> TRUE, detect |-> detect, opened |-> r.opened,
     tried |-> r.tried, sleeps |-> r.sleeps]

NoLoop == [opened |-> FALSE, tried |-> 0, sleeps |-> <<>>]

\* connect() without the test of use_mock: the hardware is tried although
\* synthetic mode is on, and a port that opens ends synthetic mode.
connect_IgnoresMock(detected, opened, clock) ==
    IF (port = "set" \/ detected) /\ opened < MaxRetries THEN
        /\ ser' = "open"
        /\ hardware_available' = TRUE
        /\ port' = "set"
        /\ use_mock' = FALSE
        /\ late' = clock
        /\ last_connect' = Connected(port # "set", connect_loop(0, opened, <<>>))
    ELSE
        /\ use_mock' = TRUE
        /\ hardware_available' = FALSE
        /\ late' = clock
        /\ last_connect' = Connected(port # "set", NoLoop)
        /\ UNCHANGED <<ser, port>>

\* connect() without the test of HAS_SERIAL: the port is opened although the
\* serial library is missing.
connect_NoSerialCheck(detected, opened, clock) ==
    IF use_mock THEN
        /\ hardware_available' = FALSE
        /\ late' = clock
        /\ last_connect' = Connected(FALSE, NoLoop)
        /\ UNCHANGED <<use_mock, ser, port>>
    ELSE IF (port = "set" \/ detected) /\ opened < MaxRetries THEN
        /\ ser' = "open"
        /\ hardware_available' = TRUE
        /\ port' = "set"
        /\ late' = clock
        /\ last_connect' = Connected(port # "set", connect_loop(0, opened, <<>>))
        /\ UNCHANGED use_mock
    ELSE
        /\ use_mock' = TRUE
        /\ hardware_available' = FALSE
        /\ late' = clock
        /\ last_connect' = Connected(port # "set", NoLoop)
        /\ UNCHANGED <<ser, port>>

\* SerialCollector.connect().  detected: _auto_detect_port() returns a port;
\* opened: the 0-based attempt at which serial.Serial() succeeds, MaxRetries
\* when every attempt raises SerialException.  clock: the pacing clock when
\* connect() is entered.
connect(detected, opened, clock) ==
    IF use_mock THEN
        /\ hardware_available' = FALSE
        /\ late' = clock
        /\ last_connect' = Connected(FALSE, NoLoop)
        /\ UNCHANGED <<use_mock, ser, port>>
    ELSE IF ~has_serial THEN
        /\ use_mock' = TRUE
        /\ hardware_available' = FALSE
        /\ late' = clock
        /\ last_connect' = Connected(FALSE, NoLoop)
        /\ UNCHANGED <<ser, port>>
    ELSE IF (port = "set" \/ detected) /\ opened < MaxRetries THEN
        /\ ser' = "open"
        /\ hardware_available' = TRUE
        /\ port' = "set"
        /\ late' = Advance(clock, 1000 * BackoffBefore(opened) + 500)
        /\ last_connect' = Connected(port # "set", connect_loop(0, opened, <<>>))
        /\ UNCHANGED use_mock
    ELSE
        /\ use_mock' = TRUE
        /\ hardware_available' = FALSE
        /\ late' = IF port = "set" \/ detected
                   THEN Advance(clock, 1000 * BackoffBefore(MaxRetries))
                   ELSE clock
        /\ last_connect' = Connected(port # "set",
                                     IF port = "set" \/ detected
                                     THEN connect_loop(0, opened, <<>>)
                                     ELSE NoLoop)
        /\ UNCHANGED <<ser, port>>

config_vars == <<window_size, step_size, has_serial>>
window_vars ==
    <<buffer, samples_since_last, signatures_generated, compute_calls,
      lines_written, failed_windows, last_emit, prev_emit>>

\* main(): collector.connect()
Connect ==
    /\ UNCHANGED <<crypto_vars, host_vars>>
    /\ pc = "constructed"
    /\ iterations' = 1 - iterations
    /\ \E detected \in BOOLEAN, opened \in 0..MaxRetries :
           connect(detected, opened, late)
    /\ pc' = "connected"
    /\ UNCHANGED <<config_vars, window_vars, reconnect_attempts, sample_count,
                   expected_sample_count, mode_str, last_read, line, parsed, out_handle, last_window, last_check>>

\* An entry check made after the output file is opened.
StreamStart_OpensFirst ==
    /\ UNCHANGED <<crypto_vars, host_vars>>
    /\ pc = "connected"
    /\ iterations' = 1 - iterations
    /\ last_connect' = NoConnect
    /\ out_handle' = IF out_handle = "pending" THEN "open" ELSE out_handle
    /\ pc' = IF ~use_mock /\ ser # "open" THEN "error" ELSE "streaming"
    /\ UNCHANGED <<window_vars, expected_sample_count, mode_str, late, ser>>
    /\ UNCHANGED <<config_vars, port, use_mock, hardware_available,
                   reconnect_attempts, sample_count, last_read, line, parsed,
                   last_window, last_check>>

\* stream(): the entry check, the initialisation of its locals and the
\* opening of the output file; an OSError of open() leaves stream() through
\* its finally clause.
StreamStart ==
    /\ UNCHANGED <<crypto_vars, host_vars>>
    /\ pc = "connected"
    /\ iterations' = 1 - iterations
    /\ last_connect' = NoConnect
    /\ IF ~use_mock /\ ser # "open"
       THEN /\ pc' = "error"
            /\ UNCHANGED <<window_vars, expected_sample_count, mode_str, late, ser, out_handle>>
       ELSE /\ buffer' = <<>>
            /\ samples_since_last' = 0
            /\ signatures_generated' = 0
            /\ expected_sample_count' = 0
            /\ late' = 0
            /\ lines_written' = 0
            /\ UNCHANGED <<compute_calls, failed_windows, last_emit, prev_emit>>
            /\ \E opens \in BOOLEAN :
                   IF out_handle = "pending" /\ ~opens
                   THEN /\ pc' = "error"
                        /\ ser' = IF ser = "open" THEN "closed" ELSE ser
                        /\ UNCHANGED out_handle
                   ELSE /\ pc' = "streaming"
                        /\ out_handle' = IF out_handle = "pending" THEN "open" ELSE out_handle
                        /\ UNCHANGED ser
            /\ mode_str' = IF use_mock THEN "MOCK" ELSE "HARDWARE"
    /\ UNCHANGED <<config_vars, port, use_mock, hardware_available,
                   reconnect_attempts, sample_count, last_read, line, parsed,
                   last_window, last_check>>

\* A check that looks at the whole buffer.
check_signal_quality_WholeBuffer(buffer_data) ==
    [ran |-> TRUE, over |-> buffer_data]

\* _check_signal_quality(list(buffer)): the quality of the latest
\* min(250, len) buffered samples is computed and logged; nothing is assigned.
check_signal_quality(buffer_data) ==
    LET n == Min(QualitySpan, Len(buffer_data))
    IN  [ran |-> TRUE,
         over |-> SubSeq(buffer_data, Len(buffer_data) - n + 1, Len(buffer_data))]

\* The ways a window transform ends: every step returns; compute_features
\* or encrypt_signature raises; out_handle.write or flush raises.
Outcomes == {"ok", "raises", "write_raises"}

\* stream(), BUFFER & PROCESS: append the sample, and when the window is
\* ready run the transform.  The signature is counted and printed (lines
\* 876-883) before it is written to the output file (lines 885-887); the
\* except clause (lines 891-895) runs when any of the steps raises.
BufferAndProcess(src, outcome) ==
    LET sample == [seq |-> sample_count + 1, src |-> src]
        buf == DequeAppend(buffer, sample, window_size)
        since == samples_since_last + 1
    IN  /\ sample_count' = sample_count + 1
        /\ buffer' = buf
        /\ last_check' = IF (sample_count + 1) % QualityCheckInterval = 0
                         THEN check_signal_quality(buf)
                         ELSE NoCheck
        /\ IF Ready(buf, since)
           THEN /\ compute_calls' = compute_calls + 1
                /\ samples_since_last' = 0
                /\ IF outcome # "raises"
                   THEN /\ signatures_generated' = signatures_generated + 1
                        /\ prev_emit' = last_emit
                        /\ last_emit' = [win |-> buf, fails |-> failed_windows]
                   ELSE UNCHANGED <<signatures_generated, prev_emit, last_emit>>
                /\ failed_windows' =
                       IF outcome = "raises" THEN failed_windows + 1 ELSE failed_windows
                /\ lines_written' =
                       IF outcome = "ok" /\ out_handle = "open"
                       THEN lines_written + 1 ELSE lines_written
                /\ last_window' = outcome
           ELSE /\ samples_since_last' = since
                /\ last_window' = "none"
                /\ UNCHANGED <<signatures_generated, compute_calls, lines_written,
                               failed_windows, last_emit, prev_emit>>

\* The transform can end this way now: a write needs an open output file,
\* and the run is followed up to MaxFailures windows that fail, in the
\* transform or in the write.
Possible(outcome) ==
    /\ outcome = "write_raises" => out_handle = "open"
    /\ outcome # "ok" =>
           failed_windows + (signatures_generated - lines_written) < MaxFailures

\* stream(), mock branch, current_time < target_time: sleep and continue.
MockWait ==
    /\ UNCHANGED <<crypto_vars, host_vars>>
    /\ pc = "streaming"
    /\ iterations' = 1 - iterations
    /\ use_mock
    /\ late - SampleInterval < 0
    /\ expected_sample_count' = NextIndex(expected_sample_count)
    /\ UNCHANGED mode_str
    /\ \E over \in 0..MaxOversleep :
           late' = IF SampleInterval - late > SleepThreshold
                   THEN over
                   ELSE Advance(late - SampleInterval, over)
    /\ last_read' = "none"
    /\ line' = <<>>
    /\ parsed' = None
    /\ last_connect' = NoConnect
    /\ last_window' = "none"
    /\ last_check' = NoCheck
    /\ UNCHANGED <<pc, config_vars, window_vars, port, use_mock, out_handle,
                   hardware_available, ser, reconnect_attempts, sample_count>>

\* stream(), mock branch, the target time is reached: take a synthetic sample.
MockSample ==
    /\ UNCHANGED <<crypto_vars, host_vars>>
    /\ pc = "streaming"
    /\ iterations' = 1 - iterations
    /\ use_mock
    /\ late - SampleInterval >= 0
    /\ sample_count < MaxSamples
    /\ expected_sample_count' = NextIndex(expected_sample_count)
    /\ UNCHANGED mode_str
    /\ \E outcome \in Outcomes, d \in 0..1 :
           /\ Possible(outcome)
           /\ BufferAndProcess("mock", outcome)
           /\ late' = Advance(late - SampleInterval, d)
    /\ last_read' = "none"
    /\ line' = <<>>
    /\ parsed' = None
    /\ last_connect' = NoConnect
    /\ UNCHANGED <<pc, config_vars, port, use_mock, hardware_available, ser,
                   reconnect_attempts, out_handle>>

\* stream(), hardware branch, port closed and the attempts are used up.
HwClosedFallback ==
    /\ UNCHANGED <<crypto_vars, host_vars>>
    /\ pc = "streaming"
    /\ iterations' = 1 - iterations
    /\ ~use_mock
    /\ ser # "open"
    /\ reconnect_attempts + 1 >= MaxReconnectAttempts
    /\ reconnect_attempts' = reconnect_attempts + 1
    /\ use_mock' = TRUE
    /\ hardware_available' = FALSE
    /\ expected_sample_count' = 0
    /\ UNCHANGED mode_str
    /\ late' = 0
    /\ last_read' = "none"
    /\ line' = <<>>
    /\ parsed' = None
    /\ last_connect' = NoConnect
    /\ last_window' = "none"
    /\ last_check' = NoCheck
    /\ UNCHANGED <<pc, config_vars, window_vars, port, ser, sample_count, out_handle>>

\* stream(), hardware branch, port closed: back off, then connect() again.
HwClosedReconnect ==
    /\ UNCHANGED <<crypto_vars, host_vars>>
    /\ pc = "streaming"
    /\ iterations' = 1 - iterations
    /\ ~use_mock
    /\ ser # "open"
    /\ reconnect_attempts + 1 < MaxReconnectAttempts
    /\ reconnect_attempts' = reconnect_attempts + 1
    /\ \E detected \in BOOLEAN, opened \in 0..MaxRetries :
           connect(detected, opened,
                   Advance(late, 1000 * Min(2^(reconnect_attempts + 1), 30)))
    /\ last_read' = "none"
    /\ line' = <<>>
    /\ parsed' = None
    /\ last_window' = "none"
    /\ last_check' = NoCheck
    /\ UNCHANGED <<pc, config_vars, window_vars, sample_count,
                   expected_sample_count, mode_str, out_handle>>

\* The read error leaving stream() instead of being caught.
HwReadError_Escapes ==
    /\ UNCHANGED <<crypto_vars, host_vars>>
    /\ pc = "streaming"
    /\ iterations' = 1 - iterations
    /\ ~use_mock
    /\ ser = "open"
    /\ last_read' = "error"
    /\ line' = <<>>
    /\ parsed' = None
    /\ pc' = "error"
    /\ ser' = "closed"
    /\ UNCHANGED <<config_vars, window_vars, reconnect_attempts, sample_count,
                   expected_sample_count, mode_str, out_handle, last_window, last_check, last_connect,
                   port, use_mock, hardware_available, late>>

\* stream(), hardware branch, ser.readline() raises SerialException.
HwReadError ==
    /\ UNCHANGED <<crypto_vars, host_vars>>
    /\ pc = "streaming"
    /\ iterations' = 1 - iterations
    /\ ~use_mock
    /\ ser = "open"
    /\ last_read' = "error"
    /\ line' = <<>>
    /\ parsed' = None
    /\ \E detected \in BOOLEAN, opened \in 0..MaxRetries :
           connect(detected, opened, late)
    /\ last_window' = "none"
    /\ last_check' = NoCheck
    /\ UNCHANGED <<pc, config_vars, window_vars, reconnect_attempts,
                   sample_count, expected_sample_count, mode_str, out_handle>>

\* A dropped line counted as a failed read: the reconnect counter goes up.
ReadDropped_CountsFailure(l, p) ==
    /\ pc = "streaming"
    /\ iterations' = 1 - iterations
    /\ ~use_mock
    /\ ser = "open"
    /\ l = <<>> \/ ~p.ok
    /\ reconnect_attempts' = reconnect_attempts + 1
    /\ line' = l
    /\ parsed' = None
    /\ last_read' = IF l = <<>> THEN "empty" ELSE "dropped"
    /\ late' = Advance(late, IF l = <<>> THEN 1000 ELSE 0)
    /\ last_connect' = NoConnect
    /\ last_window' = "none"
    /\ last_check' = NoCheck
    /\ UNCHANGED <<pc, config_vars, window_vars, port, use_mock, out_handle,
                   hardware_available, ser, sample_count, expected_sample_count, mode_str>>

\* stream(), hardware branch, lines 839-856, for ser.readline() returning the
\* bytes l that are dropped: nothing (the read timed out after its 1.0 s),
\* or a line for which parse_line returns None.  p: what parse_line returns
\* for the decoded line.
ReadDropped(l, p) ==
    /\ pc = "streaming"
    /\ iterations' = 1 - iterations
    /\ ~use_mock
    /\ ser = "open"
    /\ l = <<>> \/ ~p.ok
    /\ reconnect_attempts' = 0
    /\ line' = l
    /\ parsed' = None
    /\ last_read' = IF l = <<>> THEN "empty" ELSE "dropped"
    /\ late' = Advance(late, IF l = <<>> THEN 1000 ELSE 0)
    /\ last_connect' = NoConnect
    /\ last_window' = "none"
    /\ last_check' = NoCheck
    /\ UNCHANGED <<pc, config_vars, window_vars, port, use_mock, out_handle,
                   hardware_available, ser, sample_count, expected_sample_count, mode_str>>

\* stream(), hardware branch, lines 839-895, for ser.readline() returning a
\* line l that parse_line accepts, p its result.
ReadSample(l, p) ==
    /\ pc = "streaming"
    /\ iterations' = 1 - iterations
    /\ ~use_mock
    /\ ser = "open"
    /\ sample_count < MaxSamples
    /\ l # <<>>
    /\ p.ok
    /\ reconnect_attempts' = 0
    /\ line' = l
    /\ parsed' = p
    /\ last_read' = "sample"
    /\ \E outcome \in Outcomes :
           /\ Possible(outcome)
           /\ BufferAndProcess("hw", outcome)
           /\ late' = Advance(late, 0)
    /\ last_connect' = NoConnect
    /\ UNCHANGED <<pc, config_vars, port, use_mock, hardware_available, ser,
                   expected_sample_count, mode_str, out_handle>>

\* The lines the device sends during a run: a read that times out, a control
\* line, a malformed line, and two samples.
WireLines ==
    {<<>>,
     <<"I", "n", "f", "o", ":", "1", ",", "2", "\n">>,
     <<"1", ",", "x", "\n">>,
     <<"1", ",", "2", "\n">>,
     <<"D", "A", "T", "A", "|", "0x80", "2", ",", "5", "\r", "\n">>}

\* stream(), line 852: parse_line(line.decode("ascii", errors="ignore")) of
\* every line the device sends.
WireParsed == [l \in WireLines |-> parse_line(decode_ascii(l))]

\* stream(), hardware branch: readline() returns nothing or a line that is dropped.
HwNoSample ==
    /\ UNCHANGED <<crypto_vars, host_vars>>
    /\ \E l \in WireLines : ReadDropped(l, WireParsed[l])

\* stream(), hardware branch: readline() returns a line parse_line accepts.
HwSample ==
    /\ UNCHANGED <<crypto_vars, host_vars>>
    /\ \E l \in WireLines : ReadSample(l, WireParsed[l])

\* The serial handle stops being open under the running program
\* (ser.is_open, read at the entry check and at the top of every hardware
\* iteration, is the library's to change).
PortCloses ==
    /\ UNCHANGED <<crypto_vars, host_vars>>
    /\ pc \in {"connected", "streaming"}
    /\ UNCHANGED iterations
    /\ ser = "open"
    /\ ~use_mock
    /\ ser' = "closed"
    /\ UNCHANGED <<pc, config_vars, window_vars, port, use_mock,
                   hardware_available, reconnect_attempts, sample_count,
                   expected_sample_count, mode_str, late, last_read, line, parsed, out_handle, last_window, last_check,
                   last_connect>>

\* The finally clause closing the hardware channel only.
Stop_LeavesFileOpen ==
    /\ UNCHANGED <<crypto_vars, host_vars>>
    /\ pc = "streaming"
    /\ UNCHANGED iterations
    /\ pc' = "stopped"
    /\ ser' = IF ser = "open" THEN "closed" ELSE ser
    /\ last_read' = "none"
    /\ line' = <<>>
    /\ parsed' = None
    /\ last_connect' = NoConnect
    /\ last_window' = "none"
    /\ last_check' = NoCheck
    /\ late' = 0
    /\ mode_str' = IF use_mock THEN "MOCK" ELSE "HARDWARE"
    /\ UNCHANGED <<config_vars, window_vars, port, use_mock,
                   hardware_available, reconnect_attempts, sample_count,
                   expected_sample_count, out_handle>>

\* stream(): KeyboardInterrupt, then the finally clause: disconnect() and
\* out_handle.close().  The pacing clock is not read again.
Stop ==
    /\ UNCHANGED <<crypto_vars, host_vars>>
    /\ pc = "streaming"
    /\ UNCHANGED iterations
    /\ pc' = "stopped"
    /\ ser' = IF ser = "open" THEN "closed" ELSE ser
    /\ out_handle' = IF out_handle = "open" THEN "closed" ELSE out_handle
    /\ last_read' = "none"
    /\ line' = <<>>
    /\ parsed' = None
    /\ last_connect' = NoConnect
    /\ last_window' = "none"
    /\ last_check' = NoCheck
    /\ late' = 0
    /\ mode_str' = IF use_mock THEN "MOCK" ELSE "HARDWARE"
    /\ UNCHANGED <<config_vars, window_vars, port, use_mock,
                   hardware_available, reconnect_attempts, sample_count,
                   expected_sample_count>>

LoopStep ==
    \/ MockWait
    \/ MockSample
    \/ HwClosedFallback
    \/ HwClosedReconnect
    \/ HwReadError
    \/ HwNoSample
    \/ HwSample

\* ------------------------------------------------------------------------
\* BrainwaveProcessor: key derivation and the signature codec.
\* Byte strings are sequences over 0..255.  A text string is a sequence of
\* characters: 0..63 a character of the URL-safe base64 alphabet (its value),
\* 64 "=", 65 "+", 66 "/", 67 any other ASCII character, 68 a non-ASCII one.
\* ------------------------------------------------------------------------

SaltLen == 16
NonceLen == 12
TagLen == 16

\* bounds of the codec checks
MaxBands == 2
MaxSeals == 2

ProcIds == {1, 2}
Session == 1

\* Passphrases as code points: "t1" and "t" followed by U+00E9.
Passphrases == {<<116, 49>>, <<116, 233>>}
DefaultPassphrase == <<116, 49>>

\* Feature vectors (band powers 0.0, 1.0, 2.0), one entry per band: the
\* vectors the session signs, and the vectors a signature is verified against.
SignedVectors == {[b \in 1..n |-> 1 + (b % 2)] : n \in (MaxBands - 1)..MaxBands}
FeatureVectors ==
    SignedVectors \cup {[b \in 1..n |-> 0] : n \in (MaxBands - 1)..MaxBands}

\* np.float32 little-endian, as ndarray.tobytes() lays each element out.
Float32Bytes(x) ==
    CASE x = 0 -> <<0, 0, 0, 0>>
      [] x = 1 -> <<0, 0, 128, 63>>
      [] x = 2 -> <<0, 0, 0, 64>>

RECURSIVE ToBytes(_)
\* features.tobytes()
ToBytes(f) == IF f = <<>> THEN <<>> ELSE Float32Bytes(Head(f)) \o ToBytes(Tail(f))

RECURSIVE Utf8(_)
\* str.encode("utf-8"), for code points below U+0800
Utf8(str) ==
    IF str = <<>> THEN <<>>
    ELSE (IF Head(str) < 128
          THEN <<Head(str)>>
          ELSE <<192 + (Head(str) \div 64), 128 + (Head(str) % 64)>>) \o Utf8(Tail(str))

\* Python slicing s[lo:hi] (0-based, clamped to the length).
Slice(s, lo, hi) == SubSeq(s, lo + 1, Min(hi, Len(s)))

\* os.urandom(n): the c-th call returns bytes no other call returns.
Urandom(n, c) == [i \in 1..n |-> (37 * c + i) % 256]

\* HKDF(SHA256, length=32, salt, info=b"brainwave-auth-v1").derive(ikm):
\* a key is equal to another exactly when it is derived from the same input.
HKDF(ikm, salt) == [ikm |-> ikm, salt |-> salt, info |-> "brainwave-auth-v1"]

NoSalt == <<-1>>

\* BrainwaveProcessor._derive_key(passphrase, salt=None); c: the os.urandom
\* call it makes when no salt is given.
derive_key(passphrase, salt, c) ==
    LET s == IF salt = NoSalt THEN Urandom(SaltLen, c) ELSE salt
    IN  [key |-> HKDF(Utf8(passphrase), s), salt |-> s]

\* BrainwaveProcessor.__init__: self.key, self.salt = self._derive_key(passphrase)
NewProcessor(passphrase, c) ==
    LET d == derive_key(passphrase, NoSalt, c)
    IN  [passphrase |-> passphrase, key |-> d.key, salt |-> d.salt]

\* AESGCM(key).encrypt(nonce, data, None): the ciphertext followed by the
\* 16-byte tag.
AESGCM_encrypt(key, nonce, data) ==
    LET ks(i) == (key.ikm[1] + key.salt[1] + nonce[1] + i) % 256
        body == [i \in 1..Len(data) |-> (data[i] + ks(i)) % 256]
        tag == [j \in 1..TagLen |-> (3 * ks(j) + Len(data) + 7 * j) % 256]
    IN  body \o tag


\* AESGCM(key).decrypt(nonce, data, None): the library rejects a nonce
\* shorter than 8 bytes, and authenticates: it returns the plaintext exactly
\* for a ciphertext that encrypt produced under this key and nonce.
AESGCM_decrypt(key, nonce, data) ==
    IF Len(nonce) < 8 THEN Raise("ValueError")
    ELSE IF Len(data) < TagLen THEN Raise("InvalidTag")
    ELSE IF \E e \in aead_log : e.key = key /\ e.nonce = nonce /\ e.ct = data
    THEN Return((CHOOSE e \in aead_log :
                    e.key = key /\ e.nonce = nonce /\ e.ct = data).pt)
    ELSE Raise("InvalidTag")

\* base64.urlsafe_b64encode(payload).decode("ascii")
urlsafe_b64encode(b) ==
    LET n == Len(b)
        B(i) == IF i <= n THEN b[i] ELSE 0
        Char(j) ==
            LET q == (j - 1) \div 4
                r == (j - 1) % 4
            IN  CASE r = 0 -> B(3 * q + 1) \div 4
                  [] r = 1 -> (B(3 * q + 1) % 4) * 16 + (B(3 * q + 2) \div 16)
                  [] r = 2 -> IF 3 * q + 2 > n THEN 64
                              ELSE (B(3 * q + 2) % 16) * 4 + (B(3 * q + 3) \div 64)
                  [] r = 3 -> IF 3 * q + 3 > n THEN 64 ELSE B(3 * q + 3) % 64
    IN  [j \in 1..(4 * ((n + 2) \div 3)) |-> Char(j)]

\* The value of a character in the decoder's table after urlsafe_b64decode's
\* translation of "-" and "_" to "+" and "/"; 64 for a character outside it.
B64Value(ch) ==
    CASE ch < 64 -> ch
      [] ch = 65 -> 62
      [] ch = 66 -> 63
      [] OTHER -> 64

IsB64Data(ch) == B64Value(ch) < 64
IsB64Char(ch) == ch = 64 \/ IsB64Data(ch)

\* binascii.a2b_base64 (not strict), over the characters t it does not skip:
\* quad_pos when it reads t[i].
QuadPos(t, i) == Len(SelectSeq(SubSeq(t, 1, i - 1), IsB64Data)) % 4

\* The "=" at t[i] ends the input: quad_pos >= 2 and quad_pos + pads >= 4.
PadEnds(t, i) ==
    /\ t[i] = 64
    /\ \/ QuadPos(t, i) = 3
       \/ QuadPos(t, i) = 2 /\ i > 1 /\ t[i - 1] = 64

\* The first position where a pad sequence ends the input, Len(t) + 1 if none.
PadStop(t) ==
    IF \E i \in 1..Len(t) : PadEnds(t, i)
    THEN CHOOSE i \in 1..Len(t) : PadEnds(t, i) /\ \A k \in 1..(i - 1) : ~PadEnds(t, k)
    ELSE Len(t) + 1

\* The bytes of the data characters d: 3 per full quad, and 1 or 2 from the
\* 2 or 3 characters of a last quad that padding ended.
B64Bytes(d) ==
    LET V(j) == B64Value(d[j])
        Byte(k) ==
            LET q == 4 * ((k - 1) \div 3)
                r == (k - 1) % 3
            IN  CASE r = 0 -> V(q + 1) * 4 + (V(q + 2) \div 16)
                  [] r = 1 -> (V(q + 2) % 16) * 16 + (V(q + 3) \div 4)
                  [] r = 2 -> (V(q + 3) % 4) * 64 + V(q + 4)
    IN  [k \in 1..(3 * (Len(d) \div 4)
                     + (IF Len(d) % 4 >= 2 THEN (Len(d) % 4) - 1 ELSE 0)) |-> Byte(k)]

\* The end of a2b_base64: data characters left in an incomplete quad with no
\* pad sequence ending the input are an error.
B64Finish(d, padded) ==
    IF ~padded /\ Len(d) % 4 # 0 THEN Raise("binascii.Error") ELSE Return(B64Bytes(d))

a2b_base64(t, stop) ==
    B64Finish(SelectSeq(SubSeq(t, 1, stop - 1), IsB64Data), stop <= Len(t))

\* base64.urlsafe_b64decode(s): binascii.a2b_base64 not in strict mode.
\* Characters outside the alphabet are skipped; a "=" met after 3 characters
\* of a quad, or a second "=" in a row after 2, ends the input.
urlsafe_b64decode(s) ==
    a2b_base64(SelectSeq(s, IsB64Char), PadStop(SelectSeq(s, IsB64Char)))

\* str.encode("ascii")
encode_ascii(s) ==
    IF \E i \in 1..Len(s) : s[i] = 68 THEN Raise("UnicodeEncodeError") ELSE Return(s)

\* BrainwaveProcessor.encrypt_signature(features); c: its os.urandom call.
encrypt_signature(self, fbytes, c) ==
    LET nonce == Urandom(NonceLen, c)
        ciphertext == AESGCM_encrypt(self.key, nonce, fbytes)
        payload == self.salt \o nonce \o ciphertext
    IN  [signature |-> urlsafe_b64encode(payload),
         nonce |-> nonce, ciphertext |-> ciphertext]

\* Variant: a ciphertext that decrypts is accepted whatever it holds.
Compare_DecryptOnly(decrypted, fbytes) ==
    IF decrypted.raised THEN decrypted ELSE Return(TRUE)

\* return decrypted == features.tobytes()
Compare(decrypted, fbytes) ==
    IF decrypted.raised THEN decrypted ELSE Return(decrypted.value = fbytes)

\* Variant: decryption with the verifying instance's own key instead of the
\* key derived from the salt in the payload.
verify_payload_SelfKey(self, payload, fbytes) ==
    Compare(AESGCM_decrypt(self.key,
                           Slice(payload, SaltLen, SaltLen + NonceLen),
                           Slice(payload, SaltLen + NonceLen, Len(payload))),
            fbytes)

\* verify_signature lines 255-262: the payload split at the fixed offsets,
\* the key derived again from the extracted salt, decryption, comparison.
verify_payload(self, payload, fbytes) ==
    LET salt == Slice(payload, 0, SaltLen)
        nonce == Slice(payload, SaltLen, SaltLen + NonceLen)
        ciphertext == Slice(payload, SaltLen + NonceLen, Len(payload))
        key == derive_key(self.passphrase, salt, 0).key
    IN  Compare(AESGCM_decrypt(key, nonce, ciphertext), fbytes)

\* A step of the try block: an exception raised so far passes through.
verify_decoded(self, decoded, fbytes) ==
    IF decoded.raised THEN decoded ELSE verify_payload(self, decoded.value, fbytes)

verify_text(self, text, fbytes) ==
    IF text.raised THEN text ELSE verify_decoded(self, urlsafe_b64decode(text.value), fbytes)

\* verify_signature, the body of its try block.
verify_try(self, signature, fbytes) == verify_text(self, encode_ascii(signature), fbytes)

\* except Exception: return False
except_Exception(r) == IF r.raised THEN Return(FALSE) ELSE r

\* BrainwaveProcessor.verify_signature(signature, features): what the call
\* does (returns a value or lets an exception out).
verify_signature(self, signature, fbytes) ==
    except_Exception(verify_try(self, signature, fbytes))

NoVerify ==
    [by |-> 0, of |-> 0, input |-> "none", signature |-> <<>>, features |-> <<>>,
     raised |-> FALSE, value |-> FALSE]

CryptoInit ==
    /\ \E pw \in [ProcIds -> Passphrases] :
           processor = [p \in ProcIds |-> NewProcessor(pw[p], p - 1)]
    /\ entropy = Cardinality(ProcIds)
    /\ sealed = <<>>
    /\ aead_log = {}
    /\ last_verify = NoVerify

\* One window of the session signed: processor.encrypt_signature(features).
EncryptSignature ==
    /\ Len(sealed) < MaxSeals
    /\ last_verify = NoVerify
    /\ \E f \in SignedVectors :
           LET r == encrypt_signature(processor[Session], ToBytes(f), entropy)
           IN  /\ sealed' = Append(sealed, [features |-> f, signature |-> r.signature])
               /\ aead_log' = aead_log \cup
                      {[key |-> processor[Session].key, nonce |-> r.nonce,
                        pt |-> ToBytes(f), ct |-> r.ciphertext]}
    /\ entropy' = entropy + 1
    /\ UNCHANGED <<processor, last_verify, stream_vars, iterations, host_vars>>

\* The outcome r of processor[p].verify_signature(signature, features),
\* recorded.
Recorded(p, i, input, signature, f, r) ==
    last_verify' = [by |-> p, of |-> i, input |-> input,
                    signature |-> signature, features |-> f,
                    raised |-> r.raised, value |-> r.value]

\* processor[p].verify_signature(signature, features): the method assigns
\* no attribute of the processor.
Verify(p, i, input, signature, f) ==
    /\ Recorded(p, i, input, signature, f,
                verify_signature(processor[p], signature, ToBytes(f)))
    /\ UNCHANGED <<processor, entropy, sealed, aead_log, stream_vars, iterations, host_vars>>

\* A signature of the session verified as issued, against any feature vector.
VerifyIssued ==
    /\ last_verify = NoVerify
    /\ \E p \in ProcIds, i \in 1..Len(sealed), f \in FeatureVectors :
           Verify(p, i, "issued", sealed[i].signature, f)

\* The payload bytes of an issued signature.
PayloadOf(i) == urlsafe_b64decode(sealed[i].signature).value

\* The signatures whose payload is the given one with one byte of its
\* ciphertext part changed.
Flipped(payload) ==
    {urlsafe_b64encode([payload EXCEPT ![pos] = (@ + delta) % 256]) :
        pos \in (SaltLen + NonceLen + 1)..Len(payload), delta \in {128}}

VerifyFlipped ==
    /\ last_verify = NoVerify
    /\ \E p \in ProcIds, i \in 1..Len(sealed) :
           \E payload \in {PayloadOf(i)} :
               \E s \in Flipped(payload) :
                   Verify(p, i, "flipped", s, sealed[i].features)

\* The signatures whose payload is the given one cut short.
Truncated(payload) ==
    {urlsafe_b64encode(SubSeq(payload, 1, m)) : m \in 0..(Len(payload) - 1)}

VerifyTruncated ==
    /\ last_verify = NoVerify
    /\ \E p \in ProcIds, i \in 1..Len(sealed) :
           \E payload \in {PayloadOf(i)} :
               \E s \in Truncated(payload) :
                   Verify(p, i, "truncated", s, sealed[i].features)

\* Strings that are not the base64 text of a payload: a signature with a
\* character outside the alphabet, a non-ASCII character or a stray "="
\* added, a signature with characters missing, the empty string.
MalformedInputs(sig) ==
    {sig \o <<67>>, <<67>> \o sig, sig \o <<68>>, sig \o <<64>>,
     SubSeq(sig, 1, Len(sig) - 1), SubSeq(sig, 1, Len(sig) - 2),
     SubSeq(sig, 1, Len(sig) - 3), SubSeq(sig, 1, 5), <<67, 67>>, <<>>}

VerifyMalformed ==
    /\ last_verify = NoVerify
    /\ \E p \in ProcIds, i \in 1..Len(sealed) :
           \E s \in MalformedInputs(sealed[i].signature) :
               Verify(p, i, "malformed", s, sealed[i].features)

CryptoNext ==
    \/ EncryptSignature
    \/ VerifyIssued
    \/ VerifyFlipped
    \/ VerifyTruncated
    \/ VerifyMalformed

\* A constructed collector that is left alone while the codec is exercised.
StreamIdle ==
    /\ StreamInit
    /\ window_size = 1
    /\ port = "none"
    /\ has_serial
    /\ use_mock
    /\ out_handle = "none"
    /\ iterations = 0

CodecInit == StreamIdle /\ CryptoInit

CryptoSpec == CodecInit /\ [][CryptoNext]_vars

\* The processor main() constructs for the session, and a second instance.
StreamProcessor ==
    /\ CryptoInit
    /\ \A p \in ProcIds : processor[p].passphrase = DefaultPassphrase


Init == StreamInit /\ iterations = 0 /\ StreamProcessor

Next ==
    \/ Connect
    \/ StreamStart
    \/ MockWait
    \/ MockSample
    \/ HwClosedFallback
    \/ HwClosedReconnect
    \/ HwReadError
    \/ HwNoSample
    \/ HwSample
    \/ PortCloses
    \/ Stop

Spec == Init /\ [][Next]_vars

\* The running program with no stop signal: main() always takes its next
\* step (connect(), the start of stream(), the next loop iteration).
MainStep == Connect \/ StreamStart \/ LoopStep

LiveNext ==
    \/ Connect
    \/ StreamStart
    \/ MockWait
    \/ MockSample
    \/ HwClosedFallback
    \/ HwClosedReconnect
    \/ HwReadError
    \/ HwNoSample
    \/ HwSample
    \/ PortCloses

LiveSpec == Init /\ [][LiveNext]_vars /\ WF_vars(MainStep)

\* The fields a line is put together from.
FieldTokens ==
    {<<>>, <<" ">>, <<"1">>, <<" ", "3", " ">>, <<"-", "2", ".", "5", "e", "1">>,
     <<"x">>}

FieldLists == UNION {[1..n -> FieldTokens] : n \in 0..MaxFields}

RECURSIVE join(_, _)
\* sep.join(fields)
join(fields, sep) ==
    IF fields = <<>> THEN <<>>
    ELSE IF Len(fields) = 1 THEN fields[1]
    ELSE fields[1] \o <<sep>> \o join(Tail(fields), sep)

LinePrefixes ==
    {<<>>,
     <<"C", "M", "D", ":">>, <<"c", "m", "d", ":">>,
     <<"S", "t", "a", "t", "u", "s", ":">>, <<"E", "R", "R", "O", "R", ":">>,
     <<"i", "n", "f", "o", ":">>, <<"I", "N", "F", "O">>,
     <<"D", "A", "T", "A", ":">>, <<"d", "a", "t", "a", ":">>,
     <<"D", "a", "t", "a", "|">>,
     <<"D", "A", "T", "A">>,
     <<"D", "A", "T", "A", ":", "D", "A", "T", "A", ":">>}

\* What comes before and after the text of a line on the wire.
LineEnds ==
    {<<<<>>, <<>>>>, <<<<"0x80", " ">>, <<"\r", "\n">>>>}

\* The lines ser.readline() is given to return.
Lines ==
    {w[1] \o p \o join(f, ",") \o w[2] :
         w \in LineEnds, p \in LinePrefixes, f \in FieldLists}

\* A collector streaming from the hardware, before its first read.
ParseInit ==
    /\ pc = "streaming"
    /\ window_size \in 1..2
    /\ step_size = 1
    /\ port = "set"
    /\ has_serial = TRUE
    /\ use_mock = FALSE
    /\ hardware_available = TRUE
    /\ ser = "open"
    /\ reconnect_attempts = 0
    /\ sample_count = 0
    /\ buffer = <<>>
    /\ samples_since_last = 0
    /\ signatures_generated = 0
    /\ expected_sample_count = 0
    /\ mode_str = "none"
    /\ late = 0
    /\ compute_calls = 0
    /\ failed_windows = 0
    /\ lines_written = 0
    /\ last_emit = NoEmit
    /\ prev_emit = NoEmit
    /\ last_read = "none"
    /\ out_handle = "none"
    /\ last_window = "none"
    /\ last_check = NoCheck
    /\ last_connect = NoConnect
    /\ line = <<>>
    /\ parsed = None
    /\ HostIdle
    /\ iterations = 0
    /\ processor = [p \in ProcIds |-> NewProcessor(DefaultPassphrase, p - 1)]
    /\ entropy = Cardinality(ProcIds)
    /\ sealed = <<>>
    /\ aead_log = {}
    /\ last_verify = NoVerify

\* The first iteration of the loop, readline() returning a line that is dropped.
FirstDropped ==
    /\ UNCHANGED <<crypto_vars, host_vars>>
    /\ last_read = "none"
    /\ \E l \in Lines : \E p \in {parse_line(decode_ascii(l))} : ReadDropped(l, p)

\* The first iteration of the loop, readline() returning a sample.
FirstSample ==
    /\ UNCHANGED <<crypto_vars, host_vars>>
    /\ last_read = "none"
    /\ \E l \in Lines : \E p \in {parse_line(decode_ascii(l))} : ReadSample(l, p)

ParseNext ==
    \/ FirstDropped
    \/ FirstSample

ParseSpec == ParseInit /\ [][ParseNext]_vars

\* ------------------------------------------------------------------------
\* main(): the command line, its validation and the two constructions
\* ------------------------------------------------------------------------

\* The code points str.strip() removes.
WhitespaceCodes == {9, 10, 11, 12, 13, 28, 29, 30, 31, 32, 133, 160}

\* not passphrase or not passphrase.strip()
IsBlank(passphrase) ==
    \/ passphrase = <<>>
    \/ \A i \in 1..Len(passphrase) : passphrase[i] \in WhitespaceCodes

\* A validation that accepts a passphrase of white space only.
processor_validate_inputs_NoStrip(fs, passphrase, bands) ==
    IF fs <= 0 THEN Raise("ValueError")
    ELSE IF passphrase = <<>> THEN Raise("ValueError")
    ELSE IF bands = {} THEN Raise("ValueError")
    ELSE IF \E b \in bands : b[1] >= b[2] \/ b[1] < 0 \/ 2 * b[2] > fs
         THEN Raise("ValueError")
    ELSE Return(<<>>)

\* BrainwaveProcessor._validate_inputs(fs, passphrase, bands); high > fs / 2
\* is compared doubled.
processor_validate_inputs(fs, passphrase, bands) ==
    IF fs <= 0 THEN Raise("ValueError")
    ELSE IF IsBlank(passphrase) THEN Raise("ValueError")
    ELSE IF bands = {} THEN Raise("ValueError")
    ELSE IF \E b \in bands : b[1] >= b[2] \/ b[1] < 0 \/ 2 * b[2] > fs
         THEN Raise("ValueError")
    ELSE Return(<<>>)

\* A validation that lets a step larger than the window through.
collector_validate_inputs_NoStepBound(baud, window, step) ==
    IF baud <= 0 THEN Raise("ValueError")
    ELSE IF window <= 0 THEN Raise("ValueError")
    ELSE IF step <= 0 THEN Raise("ValueError")
    ELSE Return(<<>>)

\* SerialCollector._validate_inputs(port, baud, window_size, step_size); the
\* port is not examined.
collector_validate_inputs(baud, window, step) ==
    IF baud <= 0 THEN Raise("ValueError")
    ELSE IF window <= 0 THEN Raise("ValueError")
    ELSE IF step <= 0 THEN Raise("ValueError")
    ELSE IF step > window THEN Raise("ValueError")
    ELSE Return(<<>>)

\* validate_args(args); --mock-mode is one of its two choices after
\* parse_args().
validate_args(a) ==
    IF a.window <= 0 THEN Raise("ArgumentTypeError")
    ELSE IF a.step <= 0 THEN Raise("ArgumentTypeError")
    ELSE IF a.step > a.window THEN Raise("ArgumentTypeError")
    ELSE IF a.fs <= 0 THEN Raise("ArgumentTypeError")
    ELSE IF IsBlank(a.passphrase) THEN Raise("ArgumentTypeError")
    ELSE IF a.mock_mode \notin {MOCK_AUTH_MODE, MOCK_IMPOSTOR_MODE}
         THEN Raise("ArgumentTypeError")
    ELSE Return(<<>>)

\* BrainwaveProcessor.__init__: the validation, the two filter designs (which
\* scipy.signal completes or refuses) and the key derivation, in that order.
BrainwaveProcessor_init(fs, passphrase, bands, designed, invalid, failed, built) ==
    IF processor_validate_inputs(fs, passphrase, bands).raised
    THEN /\ pc' = invalid
         /\ UNCHANGED <<processor, entropy>>
    ELSE IF ~designed
    THEN /\ pc' = failed
         /\ UNCHANGED <<processor, entropy>>
    ELSE /\ pc' = built
         /\ processor' = [processor EXCEPT ![Session] = NewProcessor(passphrase, entropy)]
         /\ entropy' = entropy + 1

\* The values the command line is drawn from.
FsValues == {-2, 0, 120, 180, DEFAULT_FS}
PassphraseValues == {<<>>, <<32, 9>>, <<116, 49>>, <<32, 116>>}
BandValues ==
    {{}, DEFAULT_BANDS, {<<16, 16>>}, {<<8, 16>>, <<24, 16>>}, {<<-2, 8>>},
     {<<0, 60>>}, {<<0, 256>>}}
BaudValues == {0, 115200}
SizeValues == 0..2

ArgValues ==
    [fs : FsValues, passphrase : PassphraseValues, bands : BandValues,
     window : SizeValues, step : SizeValues, baud : BaudValues,
     port : {"none", "set"}, mock : BOOLEAN, mock_mode : {MOCK_AUTH_MODE, MOCK_IMPOSTOR_MODE}]

\* No processor constructed yet.
NoProcessor == [passphrase |-> <<>>, key |-> <<>>, salt |-> <<>>]

\* Before anything is constructed: the command line parsed, no collector, no
\* processor.
ConfigInit ==
    /\ pc = "start"
    /\ args \in ArgValues
    /\ has_serial \in BOOLEAN
    /\ port = "none"
    /\ mock_mode = MOCK_AUTH_MODE
    /\ HostRest
    /\ window_size = 0
    /\ step_size = 0
    /\ use_mock = FALSE
    /\ hardware_available = FALSE
    /\ ser = "none"
    /\ reconnect_attempts = 0
    /\ sample_count = 0
    /\ buffer = <<>>
    /\ samples_since_last = 0
    /\ signatures_generated = 0
    /\ expected_sample_count = 0
    /\ mode_str = "none"
    /\ late = 0
    /\ compute_calls = 0
    /\ failed_windows = 0
    /\ lines_written = 0
    /\ last_emit = NoEmit
    /\ prev_emit = NoEmit
    /\ last_read = "none"
    /\ line = <<>>
    /\ parsed = None
    /\ out_handle = "none"
    /\ last_window = "none"
    /\ last_check = NoCheck
    /\ last_connect = NoConnect
    /\ iterations = 0
    /\ processor = [p \in ProcIds |-> NoProcessor]
    /\ entropy = 0
    /\ sealed = <<>>
    /\ aead_log = {}
    /\ last_verify = NoVerify

collector_vars ==
    <<window_size, step_size, port, use_mock, mock_mode>>
idle_vars ==
    <<hardware_available, ser, reconnect_attempts, sample_count, window_vars,
      expected_sample_count, mode_str, late, last_read, line, parsed, out_handle,
      last_window, last_check, last_connect, sealed, aead_log, last_verify, tx, last_set,
      quality, in_flight, drain, reader, svc, push>>

\* BrainwaveProcessor(fs, passphrase, bands) called by a user of the class.
NewBrainwaveProcessor ==
    /\ pc = "start"
    /\ iterations' = 1 - iterations
    /\ \E designed \in BOOLEAN :
           BrainwaveProcessor_init(args.fs, args.passphrase, args.bands, designed,
                                   "proc_invalid", "proc_failed", "proc_built")
    /\ UNCHANGED <<args, has_serial, collector_vars, idle_vars>>

\* main(): validate_args(args), the fallback to mock mode when pyserial is
\* missing, and the exit when scipy is missing.
ValidateArgs ==
    /\ pc = "start"
    /\ iterations' = 1 - iterations
    /\ IF validate_args(args).raised
       THEN /\ pc' = "exit"
            /\ UNCHANGED args
       ELSE \E scipy \in BOOLEAN :
                /\ args' = [args EXCEPT !.mock = args.mock \/ ~has_serial]
                /\ pc' = IF scipy THEN "validated" ELSE "exit"
    /\ UNCHANGED <<has_serial, collector_vars, idle_vars, processor, entropy>>

\* main(): processor = BrainwaveProcessor(fs=args.fs, passphrase=args.passphrase);
\* an exception leaves main() through sys.exit(1).
ConstructProcessor ==
    /\ pc = "validated"
    /\ iterations' = 1 - iterations
    /\ \E designed \in BOOLEAN :
           BrainwaveProcessor_init(args.fs, args.passphrase, DEFAULT_BANDS, designed,
                                   "exit", "exit", "processor")
    /\ UNCHANGED <<args, has_serial, collector_vars, idle_vars>>

\* SerialCollector(port, baud, window_size, step_size, logger, fs, use_mock,
\* mock_mode), called by main() after the processor is built or by a user of
\* the class: the validation, then the fields; MockDataGenerator.__init__
\* divides 1.0 by fs.
ConstructCollector ==
    /\ pc \in {"start", "processor"}
    /\ iterations' = 1 - iterations
    /\ IF collector_validate_inputs(args.baud, args.window, args.step).raised
       THEN /\ pc' = IF pc = "start" THEN "coll_invalid" ELSE "exit"
            /\ UNCHANGED collector_vars
       ELSE /\ window_size' = args.window
            /\ step_size' = args.step
            /\ port' = args.port
            /\ use_mock' = args.mock
            /\ IF args.fs = 0
               THEN /\ pc' = IF pc = "start" THEN "coll_failed" ELSE "exit"
                    /\ UNCHANGED mock_mode
               ELSE /\ pc' = IF pc = "start" THEN "coll_built" ELSE "constructed"
                    /\ mock_mode' = args.mock_mode
    /\ UNCHANGED <<args, has_serial, idle_vars, processor, entropy>>

ConfigNext ==
    \/ NewBrainwaveProcessor
    \/ ValidateArgs
    \/ ConstructProcessor
    \/ ConstructCollector
    \/ Connect
    \/ StreamStart

ConfigSpec == ConfigInit /\ [][ConfigNext]_vars

\* ------------------------------------------------------------------------
\* SerialCollector.set_mock_mode
\* ------------------------------------------------------------------------

\* A mode switch that writes the command whenever a port object exists.
set_mock_mode_WritesWhenClosed(mode, write_ok) ==
    IF mode \notin {MOCK_AUTH_MODE, MOCK_IMPOSTOR_MODE}
    THEN /\ last_set' = [n |-> last_set.n + 1, mode |-> mode, raised |-> TRUE,
                         cmd |-> "", failed |-> FALSE]
         /\ UNCHANGED <<mock_mode, tx>>
    ELSE /\ mock_mode' = mode
         /\ IF ser # "none"
            THEN LET cmd == IF mode = MOCK_AUTH_MODE THEN "MOCK_AUTH\n" ELSE "MOCK_IMP\n"
                 IN  /\ tx' = IF write_ok THEN Append(tx, cmd) ELSE tx
                     /\ last_set' = [n |-> last_set.n + 1, mode |-> mode, raised |-> FALSE,
                                     cmd |-> cmd, failed |-> ~write_ok]
            ELSE /\ last_set' = [n |-> last_set.n + 1, mode |-> mode, raised |-> FALSE,
                                 cmd |-> "", failed |-> FALSE]
                 /\ UNCHANGED tx

\* SerialCollector.set_mock_mode(mode): MockDataGenerator.set_mode first (it
\* raises ValueError for a mode that is neither of the two), then the command
\* to the port when hardware_available and ser and ser.is_open; an exception
\* of ser.write() is logged. write_ok: ser.write() returns.
set_mock_mode(mode, write_ok) ==
    IF mode \notin {MOCK_AUTH_MODE, MOCK_IMPOSTOR_MODE}
    THEN /\ last_set' = [n |-> last_set.n + 1, mode |-> mode, raised |-> TRUE,
                         cmd |-> "", failed |-> FALSE]
         /\ UNCHANGED <<mock_mode, tx>>
    ELSE /\ mock_mode' = mode
         /\ IF hardware_available /\ ser = "open"
            THEN LET cmd == IF mode = MOCK_AUTH_MODE THEN "MOCK_AUTH\n" ELSE "MOCK_IMP\n"
                 IN  /\ tx' = IF write_ok THEN Append(tx, cmd) ELSE tx
                     /\ last_set' = [n |-> last_set.n + 1, mode |-> mode, raised |-> FALSE,
                                     cmd |-> cmd, failed |-> ~write_ok]
            ELSE /\ last_set' = [n |-> last_set.n + 1, mode |-> mode, raised |-> FALSE,
                                 cmd |-> "", failed |-> FALSE]
                 /\ UNCHANGED tx

\* The modes a caller may ask for, one of them invalid.
RequestedModes == {MOCK_AUTH_MODE, MOCK_IMPOSTOR_MODE, "Authenticated"}

\* A collector just constructed, with either generator mode.
ModeInit ==
    /\ pc = "constructed"
    /\ window_size = 1
    /\ step_size = 1
    /\ port \in {"none", "set"}
    /\ has_serial \in BOOLEAN
    /\ use_mock \in BOOLEAN
    /\ hardware_available = FALSE
    /\ ser = "none"
    /\ reconnect_attempts = 0
    /\ sample_count = 0
    /\ buffer = <<>>
    /\ samples_since_last = 0
    /\ signatures_generated = 0
    /\ expected_sample_count = 0
    /\ mode_str = "none"
    /\ late = 0
    /\ compute_calls = 0
    /\ failed_windows = 0
    /\ lines_written = 0
    /\ last_emit = NoEmit
    /\ prev_emit = NoEmit
    /\ last_read = "none"
    /\ line = <<>>
    /\ parsed = None
    /\ out_handle = "none"
    /\ last_window = "none"
    /\ last_check = NoCheck
    /\ last_connect = NoConnect
    /\ iterations = 0
    /\ processor = [p \in ProcIds |-> NewProcessor(DefaultPassphrase, p - 1)]
    /\ entropy = Cardinality(ProcIds)
    /\ sealed = <<>>
    /\ aead_log = {}
    /\ last_verify = NoVerify
    /\ args = DefaultArgs
    /\ mock_mode \in {MOCK_AUTH_MODE, MOCK_IMPOSTOR_MODE}
    /\ HostRest

\* One call of collector.set_mock_mode(mode).
SetMockMode ==
    /\ last_set.n < MaxSwitches
    /\ \E mode \in RequestedModes, write_ok \in BOOLEAN : set_mock_mode(mode, write_ok)
    /\ UNCHANGED <<stream_vars, iterations, crypto_vars, args, quality, in_flight, drain,
                   reader, svc, push>>

\* The mode switched at any moment before and after connect(), the port
\* closing at any moment after it.
ModeNext ==
    \/ SetMockMode
    \/ Connect
    \/ PortCloses

ModeSpec == ModeInit /\ [][ModeNext]_vars

\* ------------------------------------------------------------------------
\* MockDataGenerator.get_signal_quality
\* ------------------------------------------------------------------------

\* Sample values are counted in hundredths of a microvolt.  The root mean
\* square is kept by its square, sumsq / n: rms > t is sumsq > t * t * n.
Abs(x) == IF x < 0 THEN -x ELSE x

RECURSIVE SumSquares(_)
SumSquares(samples) ==
    IF samples = <<>> THEN 0
    ELSE samples[1] * samples[1] + SumSquares(Tail(samples))

\* np.max(np.abs(arr))
Peak(samples) ==
    CHOOSE m \in {Abs(samples[i]) : i \in 1..Len(samples)} :
        \A i \in 1..Len(samples) : Abs(samples[i]) <= m

\* A classification that calls a signal weak on either measure alone.
get_signal_quality_WeakOnEither(samples) ==
    IF samples = <<>>
    THEN [sumsq |-> 0, n |-> 1, peak |-> 0, quality |-> "poor"]
    ELSE LET n == Len(samples)
             sumsq == SumSquares(samples)
             peak == Peak(samples)
         IN  [sumsq |-> sumsq, n |-> n, peak |-> peak,
              quality |->
                  IF peak > 10000 \/ sumsq > 5000 * 5000 * n THEN "poor"
                  ELSE IF peak < 10 \/ sumsq < 5 * 5 * n THEN "poor"
                  ELSE IF 50 * 50 * n <= sumsq /\ sumsq <= 1000 * 1000 * n /\ peak <= 5000
                       THEN "good"
                  ELSE "fair"]

\* get_signal_quality(samples): rms (here sumsq / n, its square), peak and the
\* class; an empty list gives rms 0.0, peak 0.0 and "poor".
get_signal_quality(samples) ==
    IF samples = <<>>
    THEN [sumsq |-> 0, n |-> 1, peak |-> 0, quality |-> "poor"]
    ELSE LET n == Len(samples)
             sumsq == SumSquares(samples)
             peak == Peak(samples)
         IN  [sumsq |-> sumsq, n |-> n, peak |-> peak,
              quality |->
                  IF peak > 10000 \/ sumsq > 5000 * 5000 * n THEN "poor"
                  ELSE IF peak < 10 /\ sumsq < 5 * 5 * n THEN "poor"
                  ELSE IF 50 * 50 * n <= sumsq /\ sumsq <= 1000 * 1000 * n /\ peak <= 5000
                       THEN "good"
                  ELSE "fair"]

\* Sample values on both sides of every threshold, in hundredths.
QualityValues == {0, 4, -9, 10, 50, -1000, 1001, 5000, 5001, -10001}

RECURSIVE SamplesUpTo(_)
SamplesUpTo(n) ==
    IF n = 0 THEN {<<>>}
    ELSE LET shorter == SamplesUpTo(n - 1)
         IN  shorter \cup {Append(q, v) : q \in shorter, v \in QualityValues}

\* A collector left alone while its generator is asked about a sample list.
QualityInit ==
    /\ Constructed
    /\ processor = [p \in ProcIds |-> NewProcessor(DefaultPassphrase, p - 1)]
    /\ entropy = Cardinality(ProcIds)
    /\ sealed = <<>>
    /\ aead_log = {}
    /\ last_verify = NoVerify
    /\ tx = <<>>
    /\ last_set = NoSet
    /\ in_flight = {}
    /\ drain = NoDrain
    /\ reader = NewReader
    /\ svc = NewService
    /\ push = NoPush
    /\ \E q \in SamplesUpTo(MaxQuality) :
           quality = [called |-> FALSE, samples |-> q, info |-> <<>>]

\* mock_generator.get_signal_quality(samples)
GetSignalQuality ==
    /\ ~quality.called
    /\ quality' = [called |-> TRUE, samples |-> quality.samples,
                   info |-> get_signal_quality(quality.samples)]
    /\ UNCHANGED <<stream_vars, iterations, crypto_vars, args, mock_mode, tx, last_set,
                   in_flight, drain, reader, svc, push>>

QualitySpec == QualityInit /\ [][GetSignalQuality]_vars

\* ------------------------------------------------------------------------
\* stream(): one iteration in two steps, the acquisition and the transform
\* ------------------------------------------------------------------------

\* A loop that hands the transform to another thread and goes on.
LoopTop_Detached == TRUE

\* The top of the loop body is reached only after the iteration before has
\* ended, its transform included: stream() itself calls compute_features and
\* encrypt_signature (lines 873-875) and waits for them to return.
LoopTop == in_flight = {}

\* stream(), lines 858-873: the sample is appended and counted, the quality
\* check made, and for a ready window data = np.array(buffer) is handed to
\* processor.compute_features.
Acquire(src) ==
    LET sample == [seq |-> sample_count + 1, src |-> src]
        buf == DequeAppend(buffer, sample, window_size)
        since == samples_since_last + 1
    IN  /\ LoopTop
        /\ sample_count' = sample_count + 1
        /\ buffer' = buf
        /\ last_check' = IF (sample_count + 1) % QualityCheckInterval = 0
                         THEN check_signal_quality(buf)
                         ELSE NoCheck
        /\ IF Ready(buf, since)
           THEN /\ compute_calls' = compute_calls + 1
                /\ samples_since_last' = 0
                /\ in_flight' = in_flight \cup {buf}
           ELSE /\ samples_since_last' = since
                /\ UNCHANGED <<compute_calls, in_flight>>

\* stream(), lines 873-895: the transform of window w ends, with a signature
\* counted and shown or in the except clause.
Transform(w, outcome) ==
    /\ in_flight' = in_flight \ {w}
    /\ samples_since_last' = 0
    /\ IF outcome # "raises"
       THEN /\ signatures_generated' = signatures_generated + 1
            /\ prev_emit' = last_emit
            /\ last_emit' = [win |-> w, fails |-> failed_windows]
       ELSE UNCHANGED <<signatures_generated, prev_emit, last_emit>>
    /\ failed_windows' = IF outcome = "raises" THEN failed_windows + 1 ELSE failed_windows
    /\ lines_written' = IF outcome = "ok" /\ out_handle = "open"
                        THEN lines_written + 1 ELSE lines_written
    /\ last_window' = outcome

\* A collector streaming synthetic data, before its first iteration.
FlightInit ==
    /\ pc = "streaming"
    /\ window_size \in 1..MaxWindow
    /\ step_size \in 1..MaxWindow
    /\ ValidConfig(window_size, step_size)
    /\ port = "none"
    /\ has_serial \in BOOLEAN
    /\ use_mock = TRUE
    /\ hardware_available = FALSE
    /\ ser = "none"
    /\ reconnect_attempts = 0
    /\ sample_count = 0
    /\ buffer = <<>>
    /\ samples_since_last = 0
    /\ signatures_generated = 0
    /\ expected_sample_count = 0
    /\ mode_str = "none"
    /\ late = 0
    /\ compute_calls = 0
    /\ failed_windows = 0
    /\ lines_written = 0
    /\ last_emit = NoEmit
    /\ prev_emit = NoEmit
    /\ last_read = "none"
    /\ last_window = "none"
    /\ last_check = NoCheck
    /\ last_connect = NoConnect
    /\ line = <<>>
    /\ parsed = None
    /\ out_handle \in {"none", "open"}
    /\ iterations = 0
    /\ StreamProcessor
    /\ HostIdle

\* stream(), mock branch, before the target time, between two transforms.
FlightWait ==
    /\ LoopTop
    /\ MockWait

\* stream(), mock branch, the target time is reached: a synthetic sample is
\* taken, and the transform of a ready window begins.
FlightAcquire ==
    /\ pc = "streaming"
    /\ use_mock
    /\ late - SampleInterval >= 0
    /\ sample_count < MaxSamples
    /\ iterations' = 1 - iterations
    /\ expected_sample_count' = NextIndex(expected_sample_count)
    /\ UNCHANGED mode_str
    /\ Acquire("mock")
    /\ \E d \in 0..1 : late' = Advance(late - SampleInterval, d)
    /\ UNCHANGED <<pc, config_vars, port, use_mock, hardware_available, ser,
                   reconnect_attempts, out_handle, signatures_generated,
                   lines_written, failed_windows, last_emit, prev_emit, last_read,
                   line, parsed,
                   last_window, last_connect, crypto_vars, args, mock_mode, tx,
                   last_set, quality, drain, reader, svc, push>>

\* The transform begun by the iteration ends.
FlightFinish ==
    /\ pc = "streaming"
    /\ \E w \in in_flight, outcome \in Outcomes :
           /\ Possible(outcome)
           /\ Transform(w, outcome)
    /\ UNCHANGED <<pc, config_vars, port, use_mock, hardware_available, ser,
                   reconnect_attempts, out_handle, sample_count, buffer,
                   compute_calls, expected_sample_count, mode_str, late, last_read, line,
                   parsed, last_check, last_connect, iterations, crypto_vars,
                   args, mock_mode, tx, last_set, quality, drain, reader, svc, push>>

FlightNext ==
    \/ FlightWait
    \/ FlightAcquire
    \/ FlightFinish

FlightSpec == FlightInit /\ [][FlightNext]_vars

\* ------------------------------------------------------------------------
\* SerialCollector._flush_startup, one loop iteration at a time.  Time is
\* counted in ticks of half a second.
\* ------------------------------------------------------------------------

\* deadline = time.time() + 2.0, and the timeout=1.0 of serial.Serial().
DrainDeadline == 4
ReadTimeout == 2

\* bytes.decode("utf-8", errors="replace"): a byte that is no UTF-8 becomes
\* U+FFFD.
decode_replace(bytes) ==
    [i \in 1..Len(bytes) |-> IF bytes[i] = "0x80" THEN "U+FFFD" ELSE bytes[i]]

\* sub in s
Contains(s, sub) ==
    \E i \in 1..(Len(s) - Len(sub) + 1) : SubSeq(s, i, i + Len(sub) - 1) = sub

CORTEXKEY_READY ==
    <<"C", "O", "R", "T", "E", "X", "K", "E", "Y", "_", "R", "E", "A", "D", "Y">>
READY == <<"R", "E", "A", "D", "Y">>

\* A test for the long marker only.
is_ready_LongOnly(text) == text # <<>> /\ Contains(text, CORTEXKEY_READY)

\* if line: ... if "CORTEXKEY_READY" in line or "READY" in line: break
is_ready(text) ==
    text # <<>> /\ (Contains(text, CORTEXKEY_READY) \/ Contains(text, READY))

\* What the port delivers while the device starts: nothing within the read
\* timeout, a blank line, banner lines, and lines with a marker.
StartupLines ==
    {<<>>,
     <<" ", "\r", "\n">>,
     <<"b", "o", "o", "t", "0x80", "\n">>,
     <<"r", "e", "a", "d", "y", "\n">>,
     <<"A", "L", "R", "E", "A", "D", "Y", "\n">>,
     <<"R", "E", "A", "D", "Y", "\r", "\n">>,
     CORTEXKEY_READY \o <<"\n">>}

\* A collector constructed for the hardware, connect() not called yet.
DrainInit ==
    /\ pc = "constructed"
    /\ window_size \in 1..MaxWindow
    /\ step_size = 1
    /\ port \in {"none", "set"}
    /\ has_serial = TRUE
    /\ use_mock = FALSE
    /\ hardware_available = FALSE
    /\ ser = "none"
    /\ reconnect_attempts = 0
    /\ sample_count = 0
    /\ buffer = <<>>
    /\ samples_since_last = 0
    /\ signatures_generated = 0
    /\ expected_sample_count = 0
    /\ mode_str = "none"
    /\ late = 0
    /\ compute_calls = 0
    /\ failed_windows = 0
    /\ lines_written = 0
    /\ last_emit = NoEmit
    /\ prev_emit = NoEmit
    /\ last_read = "none"
    /\ last_window = "none"
    /\ last_check = NoCheck
    /\ last_connect = NoConnect
    /\ line = <<>>
    /\ parsed = None
    /\ out_handle = "none"
    /\ iterations = 0
    /\ StreamProcessor
    /\ HostIdle

drain_frame ==
    <<config_vars, window_vars, use_mock, reconnect_attempts, sample_count,
      expected_sample_count, mode_str, late, last_read, line, parsed, out_handle,
      last_window, last_check, last_connect, iterations, crypto_vars, args,
      mock_mode, tx, last_set, quality, in_flight, reader, svc, push>>

\* connect(), lines 650-662: serial.Serial() returns at the first attempt;
\* hardware_available and port are set, and _flush_startup() is entered with
\* its deadline two seconds ahead.
DrainOpen ==
    /\ pc = "constructed"
    /\ ~use_mock
    /\ has_serial
    /\ ser' = "open"
    /\ hardware_available' = TRUE
    /\ port' = "set"
    /\ drain' = [clock |-> 0, log |-> <<>>, cause |-> "none"]
    /\ pc' = "draining"
    /\ UNCHANGED drain_frame

\* _flush_startup(), one iteration entered before the deadline: readline()
\* returns a line within the read timeout, returns nothing at the timeout, or
\* raises; a marker line or an exception leaves the loop, and connect()
\* returns.
DrainRead ==
    /\ pc = "draining"
    /\ drain.clock < DrainDeadline
    /\ \E l \in StartupLines, d \in 1..ReadTimeout, raises \in BOOLEAN :
           /\ l = <<>> /\ ~raises => d = ReadTimeout
           /\ LET text == strip(decode_replace(l))
                  cause == IF raises THEN "error"
                           ELSE IF is_ready(text) THEN "marker" ELSE "none"
              IN  /\ drain' = [clock |-> drain.clock + d,
                               log |-> IF raises THEN drain.log ELSE Append(drain.log, text),
                               cause |-> cause]
                  /\ pc' = IF cause = "none" THEN "draining" ELSE "connected"
    /\ UNCHANGED <<ser, hardware_available, port, drain_frame>>

\* _flush_startup(): while time.time() < deadline is false; connect() returns.
DrainExpire ==
    /\ pc = "draining"
    /\ drain.clock >= DrainDeadline
    /\ drain' = [drain EXCEPT !.cause = "timeout"]
    /\ pc' = "connected"
    /\ UNCHANGED <<ser, hardware_available, port, drain_frame>>

DrainNext ==
    \/ DrainOpen
    \/ DrainRead
    \/ DrainExpire

\* The thread inside connect() keeps running.
DrainSpec == DrainInit /\ [][DrainNext]_vars /\ WF_vars(DrainNext)

\* ------------------------------------------------------------------------
\* backend/serial_reader.py: SerialReader with its reader thread (_mock_loop)
\* and one thread of the web server calling its methods.  No device is
\* attached.  A sample is written as the mode it was generated under.
\* ------------------------------------------------------------------------

\* WINDOW_SIZE is 500 in the program; the model follows a window of 2.
WINDOW_SIZE == 2
LatestCounts == {1, 3}

ReaderModes == {"auth", "impostor"}
LockedCalls == {"set_mock_mode", "get_window", "get_latest", "get_signal_stats", "flush_buffer"}

\* One access to a field of the reader: by which thread, to what, reading or
\* writing, whether that thread held self._lock, and whether the reader
\* thread existed.
Access(by, what, kind) ==
    [by |-> by, what |-> what, kind |-> kind, locked |-> reader.lock = by,
     threaded |-> reader.rpc # "none"]

\* A collector left alone, and a SerialReader just constructed.
ReaderInit ==
    /\ Constructed
    /\ processor = [p \in ProcIds |-> NewProcessor(DefaultPassphrase, p - 1)]
    /\ entropy = Cardinality(ProcIds)
    /\ sealed = <<>>
    /\ aead_log = {}
    /\ last_verify = NoVerify
    /\ HostRest

reader_frame ==
    <<stream_vars, iterations, crypto_vars, args, mock_mode, tx, last_set, quality,
      in_flight, drain, svc, push>>

\* start(): no thread alive, not connected: connect() finds no port and
\* falls back (_use_mock = True, _hardware_mode = False, _connected = True);
\* then _running = True and the thread is started.
StartReader ==
    /\ reader.cpc = "idle"
    /\ reader.rpc = "none"
    /\ reader' = [reader EXCEPT !.use_mock = TRUE, !.hardware_mode = FALSE,
                                !.connected = TRUE, !.running = TRUE,
                                !.rpc = "entry", !.op = "start",
                                !.result = [kind |-> "none", value |-> <<>>],
                                !.accesses = {Access("caller", "_use_mock", "write"),
                                              Access("caller", "_hardware_mode", "write")}]
    /\ UNCHANGED reader_frame

\* _read_loop(): if self._use_mock: self._mock_loop()
ReaderEntry ==
    /\ reader.rpc = "entry"
    /\ reader' = [reader EXCEPT !.rpc = IF reader.use_mock THEN "top" ELSE "serial",
                                !.accesses = {Access("reader", "_use_mock", "read")}]
    /\ UNCHANGED reader_frame

\* _mock_loop(): while self._running: the sample is computed after the test
\* self._mock_mode == "auth".
ReaderGenerates ==
    /\ reader.rpc = "top"
    /\ reader.running
    /\ reader' = [reader EXCEPT !.sample = reader.mock_mode, !.rpc = "lock",
                                !.accesses = {Access("reader", "_mock_mode", "read")}]
    /\ UNCHANGED reader_frame

\* _mock_loop(): with self._lock, entered when the lock is free.
ReaderLocks ==
    /\ reader.rpc = "lock"
    /\ reader.lock = "free"
    /\ reader' = [reader EXCEPT !.lock = "reader", !.rpc = "append", !.accesses = {}]
    /\ UNCHANGED reader_frame

\* _mock_loop(): self._buffer.append(float(sample)) on the deque of
\* maxlen=WINDOW_SIZE, the lock released, idx += 1 and the sleep.
ReaderAppends ==
    /\ reader.rpc = "append"
    /\ reader' = [reader EXCEPT !.buffer = DequeAppend(reader.buffer, reader.sample, WINDOW_SIZE),
                                !.lock = "free", !.rpc = "top",
                                !.accesses = {Access("reader", "_buffer", "write")}]
    /\ UNCHANGED reader_frame

\* set_mock_mode(mode), its first statement: self._mock_mode = mode.
SetModeBegins ==
    /\ reader.cpc = "idle"
    /\ \E mode \in ReaderModes :
           reader' = [reader EXCEPT !.mock_mode = mode, !.cpc = "lock",
                                    !.op = "set_mock_mode",
                                    !.result = [kind |-> "none", value |-> <<>>],
                                    !.accesses = {Access("caller", "_mock_mode", "write")}]
    /\ UNCHANGED reader_frame

\* get_window(), get_latest(n), get_signal_stats() or flush_buffer() called.
CallBegins ==
    /\ reader.cpc = "idle"
    /\ \E op \in LockedCalls \ {"set_mock_mode"}, n \in LatestCounts :
           reader' = [reader EXCEPT !.cpc = "lock", !.op = op,
                                    !.n = IF op = "get_latest" THEN n ELSE 0,
                                    !.result = [kind |-> "none", value |-> <<>>],
                                    !.accesses = {}]
    /\ UNCHANGED reader_frame

\* with self._lock, entered by the calling thread when the lock is free.
CallerLocks ==
    /\ reader.cpc = "lock"
    /\ reader.lock = "free"
    /\ reader' = [reader EXCEPT !.lock = "caller", !.cpc = "body", !.accesses = {}]
    /\ UNCHANGED reader_frame

\* items[-n:] if len(items) >= n else items
latest(items, n) ==
    IF Len(items) >= n THEN SubSeq(items, Len(items) - n + 1, Len(items)) ELSE items

\* What the call returns, computed under the lock: np.array(list(...)) and
\* list(...) are new objects holding the values of the moment.
call_result(op, buf, n) ==
    IF op = "get_window"
    THEN IF Len(buf) < WINDOW_SIZE
         THEN [kind |-> "None", value |-> <<>>]
         ELSE [kind |-> "copy", value |-> buf]
    ELSE IF op = "get_latest" THEN [kind |-> "copy", value |-> latest(buf, n)]
    ELSE IF op = "get_signal_stats"
    THEN IF buf = <<>> THEN [kind |-> "zeros", value |-> <<>>]
         ELSE [kind |-> "copy", value |-> buf]
    ELSE [kind |-> "none", value |-> <<>>]

\* The body of the with block and the return: set_mock_mode and flush_buffer
\* clear the deque, the others read it; self._serial is None, so
\* set_mock_mode writes no command.
CallerBody ==
    /\ reader.cpc = "body"
    /\ reader' = [reader EXCEPT
           !.buffer = IF reader.op \in {"set_mock_mode", "flush_buffer"}
                      THEN <<>> ELSE reader.buffer,
           !.result = call_result(reader.op, reader.buffer, reader.n),
           !.lock = "free",
           !.cpc = "idle",
           !.accesses = {Access("caller", "_buffer",
                                IF reader.op \in {"set_mock_mode", "flush_buffer"}
                                THEN "write" ELSE "read")}]
    /\ UNCHANGED reader_frame

ReaderNext ==
    \/ StartReader
    \/ ReaderEntry
    \/ ReaderGenerates
    \/ ReaderLocks
    \/ ReaderAppends
    \/ SetModeBegins
    \/ CallBegins
    \/ CallerLocks
    \/ CallerBody

ReaderSpec == ReaderInit /\ [][ReaderNext]_vars

\* ------------------------------------------------ backend: start and stop
\* SerialReader (serial_reader.py) used as app.py uses it: request handlers
\* call connect(), start() and stop() while read-loop threads run.  A loop
\* thread is at "entry" (_read_loop), "mock" (_mock_loop), "serial"
\* (_serial_loop) or "reconnect" (the path of _serial_loop into _reconnect);
\* "none" is a thread that does not exist or has ended.  History: last is
\* the source of the sample appended by the latest step, ret the call that
\* returned in it, fallen that a _reconnect has failed since the latest
\* connect() or stop(), settled that a start() has returned since the latest
\* connect() or stop().

ServiceInit ==
    /\ Constructed
    /\ processor = [p \in ProcIds |-> NewProcessor(DefaultPassphrase, p - 1)]
    /\ entropy = Cardinality(ProcIds)
    /\ sealed = <<>>
    /\ aead_log = {}
    /\ last_verify = NoVerify
    /\ HostRest

service_frame ==
    <<stream_vars, iterations, crypto_vars, args, mock_mode, tx, last_set, quality,
      in_flight, drain, reader, push>>

\* threading.Thread.is_alive() of self._thread
thread_alive(s) == IF s.thread = 0 THEN FALSE ELSE s.loops[s.thread] # "none"

\* SerialReader.connect: the port opens, or the reader falls back to mock.
service_connect(s, opens) ==
    IF opens
    THEN [s EXCEPT !.serial = "open", !.use_mock = FALSE, !.hardware_mode = TRUE,
                   !.connected = TRUE, !.fallen = FALSE, !.settled = FALSE]
    ELSE [s EXCEPT !.use_mock = TRUE, !.hardware_mode = FALSE,
                   !.connected = TRUE, !.fallen = FALSE, !.settled = FALSE]

\* A handler calls reader.connect(port).
ServiceConnect(h) ==
    /\ svc.handlers[h] = "idle"
    /\ \E opens \in BOOLEAN :
           svc' = [service_connect(svc, opens) EXCEPT !.last = "none", !.ret = "connect"]
    /\ UNCHANGED service_frame

\* start(): the test of self._thread, and connect() when not connected.
StartChecks(h) ==
    /\ svc.handlers[h] = "idle"
    /\ IF thread_alive(svc)
       THEN svc' = [svc EXCEPT !.last = "none", !.ret = "start", !.settled = TRUE]
       ELSE \E opens \in BOOLEAN :
                svc' = [(IF svc.connected THEN svc ELSE service_connect(svc, opens))
                        EXCEPT !.handlers[h] = "spawn", !.last = "none", !.ret = "none"]
    /\ UNCHANGED service_frame

\* start(): self._running = True and the new thread, started.
StartSpawns(h) ==
    /\ svc.handlers[h] = "spawn"
    /\ \E t \in Loops :
           /\ svc.loops[t] = "none"
           /\ svc' = [svc EXCEPT !.running = TRUE, !.thread = t, !.loops[t] = "entry",
                                 !.handlers[h] = "idle", !.last = "none",
                                 !.ret = "start", !.settled = TRUE]
    /\ UNCHANGED service_frame

\* stop(): self._running = False
StopBegins(h) ==
    /\ svc.handlers[h] = "idle"
    /\ svc' = [svc EXCEPT !.running = FALSE, !.handlers[h] = "join", !.last = "none",
                          !.ret = "none", !.fallen = FALSE, !.settled = FALSE]
    /\ UNCHANGED service_frame

\* stop(): join(timeout=2) returns when the thread has ended, or after 2 s
\* while the thread sleeps in its reconnection; the port is closed then.
StopJoins(h) ==
    /\ svc.handlers[h] = "join"
    /\ IF svc.thread = 0 THEN TRUE ELSE svc.loops[svc.thread] \in {"none", "reconnect"}
    /\ svc' = [svc EXCEPT !.serial = IF svc.serial = "none" THEN "none" ELSE "closed",
                          !.connected = FALSE, !.hardware_mode = FALSE,
                          !.handlers[h] = "idle", !.last = "none", !.ret = "stop"]
    /\ UNCHANGED service_frame

\* _read_loop: the loop is chosen once, from self._use_mock.
ReadLoop(t) ==
    /\ svc.loops[t] = "entry"
    /\ svc' = [svc EXCEPT !.loops[t] = IF svc.use_mock THEN "mock" ELSE "serial",
                          !.last = "none", !.ret = "none"]
    /\ UNCHANGED service_frame

\* _mock_loop: one iteration, or its end when self._running is false.
MockLoop(t) ==
    /\ svc.loops[t] = "mock"
    /\ svc' = IF svc.running
              THEN [svc EXCEPT !.buffer = DequeAppend(svc.buffer, "mock", WINDOW_SIZE),
                               !.last = "mock", !.ret = "none"]
              ELSE [svc EXCEPT !.loops[t] = "none", !.last = "none", !.ret = "none"]
    /\ UNCHANGED service_frame

\* _serial_loop: one iteration.  readline() of an open port returns a sample
\* line, returns nothing usable, or raises; on a port that is not open it
\* raises.  A raise (and a long silence) leads to _reconnect.
SerialLoop(t) ==
    /\ svc.loops[t] = "serial"
    /\ IF ~svc.running
       THEN svc' = [svc EXCEPT !.loops[t] = "none", !.last = "none", !.ret = "none"]
       ELSE \E outcome \in {"sample", "nothing", "raises"} :
                /\ outcome # "raises" => svc.serial = "open"
                /\ svc' = IF outcome = "sample"
                          THEN [svc EXCEPT !.buffer = DequeAppend(svc.buffer, "serial", WINDOW_SIZE),
                                           !.last = "serial", !.ret = "none"]
                          ELSE IF outcome = "nothing"
                          THEN [svc EXCEPT !.last = "none", !.ret = "none"]
                          ELSE [svc EXCEPT !.loops[t] = "reconnect", !.last = "none",
                                           !.ret = "none"]
    /\ UNCHANGED service_frame

\* _reconnect: the port is closed and opened again; when that fails the
\* flags are set to mock, and _serial_loop goes on either way.
Reconnect(t) ==
    /\ svc.loops[t] = "reconnect"
    /\ \E opens \in BOOLEAN :
           svc' = IF opens
                  THEN [svc EXCEPT !.serial = "open", !.loops[t] = "serial",
                                   !.last = "none", !.ret = "none"]
                  ELSE [svc EXCEPT !.serial = "closed", !.use_mock = TRUE,
                                   !.hardware_mode = FALSE, !.fallen = TRUE,
                                   !.loops[t] = "serial", !.last = "none", !.ret = "none"]
    /\ UNCHANGED service_frame

ServiceThreads ==
    \E t \in Loops : ReadLoop(t) \/ MockLoop(t) \/ SerialLoop(t) \/ Reconnect(t)

ServiceNext ==
    \/ \E h \in Handlers : ServiceConnect(h)
    \/ \E h \in Handlers : StartChecks(h)
    \/ \E h \in Handlers : StartSpawns(h)
    \/ \E h \in Handlers : StopBegins(h)
    \/ \E h \in Handlers : StopJoins(h)
    \/ \E t \in Loops : ReadLoop(t)
    \/ \E t \in Loops : MockLoop(t)
    \/ \E t \in Loops : SerialLoop(t)
    \/ \E t \in Loops : Reconnect(t)

\* The read-loop threads are scheduled: a thread that can step does.
ServiceSpec == ServiceInit /\ [][ServiceNext]_vars /\ WF_vars(ServiceThreads)

\* -------------------------------------------------- backend: the push loop
\* app.py: the handlers of /api/auth/start and /api/auth/stop and the
\* _push_loop threads they start.  A push thread is at "top" (the while
\* test) or "sleep" (time.sleep(0.2), the rest of the body still to run);
\* "none" is a thread that does not exist or has ended.  History: decided
\* counts the decisions taken since the latest auth_start.

chunks_needed == 6
MaxChunks == 7

PushInit ==
    /\ Constructed
    /\ processor = [p \in ProcIds |-> NewProcessor(DefaultPassphrase, p - 1)]
    /\ entropy = Cardinality(ProcIds)
    /\ sealed = <<>>
    /\ aead_log = {}
    /\ last_verify = NoVerify
    /\ HostRest

push_frame ==
    <<stream_vars, iterations, crypto_vars, args, mock_mode, tx, last_set, quality,
      in_flight, drain, reader, svc>>

\* auth_start: auth_state is reset for a new scan; _start_push_loop follows.
AuthStart(h) ==
    /\ push.handlers[h] = "idle"
    /\ push' = [push EXCEPT !.status = "scanning", !.chunks = 0, !.decided = 0,
                            !.handlers[h] = "check"]
    /\ UNCHANGED push_frame

\* _start_push_loop: if _push_running: return
StartPushChecks(h) ==
    /\ push.handlers[h] = "check"
    /\ push' = [push EXCEPT !.handlers[h] = IF push.running THEN "idle" ELSE "spawn"]
    /\ UNCHANGED push_frame

\* _start_push_loop: _push_running = True and the new thread, started.
StartPushSpawns(h) ==
    /\ push.handlers[h] = "spawn"
    /\ \E t \in Pushers :
           /\ push.loops[t] = "none"
           /\ push' = [push EXCEPT !.running = TRUE, !.loops[t] = "top",
                                   !.handlers[h] = "idle"]
    /\ UNCHANGED push_frame

\* auth_stop: the status is idle, and _stop_push_loop clears _push_running.
AuthStop(h) ==
    /\ push.handlers[h] = "idle"
    /\ push' = [push EXCEPT !.status = "idle", !.running = FALSE]
    /\ UNCHANGED push_frame

\* _push_loop: the while test; the loop left, _push_running is cleared.
PushTop(t) ==
    /\ push.loops[t] = "top"
    /\ push' = IF push.running /\ push.status = "scanning"
               THEN [push EXCEPT !.loops[t] = "sleep"]
               ELSE [push EXCEPT !.loops[t] = "none", !.running = FALSE]
    /\ UNCHANGED push_frame

\* _push_loop: the body after the sleep.  Without a full window only the
\* waveform is sent; with one the chunk is counted, and from chunks_needed
\* chunks on the decision is taken and the loop left.
PushBody(t) ==
    /\ push.loops[t] = "sleep"
    /\ \E enough \in BOOLEAN, accepted \in BOOLEAN :
           IF ~enough
           THEN push' = [push EXCEPT !.loops[t] = "top"]
           ELSE /\ push.chunks < MaxChunks
                /\ push' = IF push.chunks + 1 >= chunks_needed
                           THEN [push EXCEPT !.chunks = push.chunks + 1,
                                             !.status = IF accepted THEN "authenticated"
                                                        ELSE "denied",
                                             !.decided = Min(push.decided + 1, 2),
                                             !.running = FALSE,
                                             !.loops[t] = "none"]
                           ELSE [push EXCEPT !.chunks = push.chunks + 1,
                                             !.loops[t] = "top"]
    /\ UNCHANGED push_frame

PushThreads == \E t \in Pushers : PushTop(t) \/ PushBody(t)

PushNext ==
    \/ \E h \in Handlers : AuthStart(h)
    \/ \E h \in Handlers : StartPushChecks(h)
    \/ \E h \in Handlers : StartPushSpawns(h)
    \/ \E h \in Handlers : AuthStop(h)
    \/ \E t \in Pushers : PushTop(t)
    \/ \E t \in Pushers : PushBody(t)

PushSpec == PushInit /\ [][PushNext]_vars

\* ---------------------------------------------------------------- claims

\* C1: when no window transform has failed, the number of signatures emitted
\* after n accepted samples is 0 for n < W and (n - W) \div S + 1 for n >= W.
C1_EmissionCount ==
    (pc \in {"streaming", "stopped"} /\ failed_windows = 0) =>
        signatures_generated =
            IF sample_count < window_size
            THEN 0
            ELSE ((sample_count - window_size) \div step_size) + 1

C1_Witness ==
    /\ failed_windows = 0
    /\ lines_written = 0
    /\ signatures_generated >= 2
    /\ step_size >= 2
    /\ window_size > step_size

\* C2: compute_features is invoked only on a buffer of exactly W samples with
\* at least S samples appended since the last emission (or the start), and
\* right after every emission the since-last-emission counter is 0.
C2_ComputeOnlyWhenReady ==
    [][/\ compute_calls' # compute_calls =>
            /\ Len(buffer') = window_size
            /\ samples_since_last + 1 >= step_size
       /\ signatures_generated' > signatures_generated =>
            samples_since_last' = 0]_vars

C2_Witness ==
    /\ compute_calls >= 2
    /\ signatures_generated >= 1
    /\ samples_since_last = 0
    /\ step_size >= 2
    /\ window_size > step_size

\* The later window is the earlier one moved forward by s samples of the
\* stream: they share W - s samples, and the later one starts s samples on.
ShiftedBy(earlier, later, s) ==
    /\ Len(later) = Len(earlier)
    /\ SubSeq(later, 1, Len(later) - s) = SubSeq(earlier, s + 1, Len(earlier))
    /\ later[1].seq = earlier[1].seq + s

C4_FreshSaltAndNonce ==
    \A i, j \in 1..Len(sealed) :
        i < j =>
            /\ Slice(PayloadOf(i), 0, SaltLen) # Slice(PayloadOf(j), 0, SaltLen)
            /\ Slice(PayloadOf(i), SaltLen, SaltLen + NonceLen)
                   # Slice(PayloadOf(j), SaltLen, SaltLen + NonceLen)

\* The decoded payload of the i-th signature is the 16-byte salt, the 12-byte
\* nonce and the ciphertext of its feature bytes, sealed under the key
\* derived from the passphrase and the salt in the payload.
SealedLayout(i) ==
    \E payload \in {PayloadOf(i)} :
        \E e \in aead_log :
            /\ Len(payload) = SaltLen + NonceLen + Len(e.ct)
            /\ Slice(payload, 0, SaltLen) = processor[Session].salt
            /\ Slice(payload, SaltLen, SaltLen + NonceLen) = e.nonce
            /\ Slice(payload, SaltLen + NonceLen, Len(payload)) = e.ct
            /\ e.pt = ToBytes(sealed[i].features)
            /\ e.key = HKDF(Utf8(processor[Session].passphrase),
                            Slice(payload, 0, SaltLen))

\* The verification recorded is of an issued signature, unchanged.
OfIssued == last_verify.input = "issued"
SamePassphrase ==
    processor[last_verify.by].passphrase = processor[Session].passphrase
SameFeatures == last_verify.features = sealed[last_verify.of].features

\* C5: a signature verifies (true) against the feature vector it was made
\* from on every processor with the same passphrase, the issuing one or
\* another instance; its decoded payload is salt, nonce, ciphertext at the
\* offsets 0, 16, 28, under the key derived from the salt in the payload.
C5_RoundTrip ==
    /\ \A i \in 1..Len(sealed) : SealedLayout(i)
    /\ (OfIssued /\ SamePassphrase /\ SameFeatures) =>
           (~last_verify.raised /\ last_verify.value = TRUE)

C5_Witness ==
    /\ OfIssued
    /\ SamePassphrase
    /\ SameFeatures
    /\ last_verify.by # Session
    /\ last_verify.of = 2
    /\ last_verify.value = TRUE

\* C6: a signature with one byte of its ciphertext part changed, or with its
\* payload cut short, verifies false against the original feature vector; an
\* unchanged signature verifies false against another feature vector and on
\* a processor with another passphrase.
C6_TamperDetected ==
    /\ last_verify.input \in {"flipped", "truncated"} =>
           (~last_verify.raised /\ last_verify.value = FALSE)
    /\ (OfIssued /\ (~SameFeatures \/ ~SamePassphrase)) =>
           (~last_verify.raised /\ last_verify.value = FALSE)

C6_Witness ==
    /\ last_verify.input = "flipped"
    /\ SamePassphrase
    /\ last_verify.by = Session
    /\ last_verify.value = FALSE

\* C7: verify_signature returns false, and lets no exception out, for every
\* string that is not the base64 text of a payload.
C7_MalformedRejected ==
    last_verify.input = "malformed" =>
        (~last_verify.raised /\ last_verify.value = FALSE)

\* A step of main() that uses the hardware channel: a read, an open, a port
\* detection.
TouchesHardware ==
    /\ iterations' # iterations
    /\ \/ last_read' # "none"
       \/ last_connect'.tried > 0
       \/ last_connect'.detect

\* C11: once use_mock is true it stays true, and no later step opens, reads
\* from or reconnects to the hardware channel.
C11_FallbackOneWay ==
    [][use_mock =>
          /\ use_mock'
          /\ ~TouchesHardware
          /\ ser' = "open" => ser = "open"]_vars

C11_Witness ==
    /\ pc = "streaming"
    /\ use_mock
    /\ reconnect_attempts = MaxReconnectAttempts
    /\ ser = "closed"
    /\ expected_sample_count = 2

\* C12: while streaming in hardware mode every reconnect (a connect() call)
\* increments the reconnect counter, and at the maximum the source switches
\* to synthetic mode instead of reconnecting.
C12_ReconnectCounts ==
    [][(pc = "streaming" /\ ~use_mock /\ iterations' # iterations) =>
          /\ last_connect'.called => reconnect_attempts' = reconnect_attempts + 1
          /\ reconnect_attempts' >= MaxReconnectAttempts =>
                 (use_mock' /\ ~last_connect'.called)]_vars

\* The sleeps of a retry loop with the given number of failed attempts:
\* 2^a seconds after each failed attempt a = 0, 1, ... other than the last
\* of the MaxRetries.
ExpectedSleeps(failed) == [i \in 1..Min(failed, MaxRetries - 1) |-> 2^(i - 1)]

\* C13: a connect() that tries the hardware makes at most 3 attempts, sleeps
\* 2^a seconds after each failed attempt a but the last; after the last
\* failure, or with no port given or detected, the collector is in synthetic
\* mode with hardware_available false; an attempt that succeeds stops the
\* retries and leaves the collector in hardware mode.
C13_ConnectRetries ==
    [][(iterations' # iterations /\ last_connect'.called /\ ~use_mock
            /\ has_serial) =>
          /\ last_connect'.tried <= 3
          /\ IF last_connect'.opened
             THEN /\ last_connect'.tried >= 1
                  /\ last_connect'.sleeps = ExpectedSleeps(last_connect'.tried - 1)
                  /\ ~use_mock'
                  /\ hardware_available'
                  /\ ser' = "open"
             ELSE /\ last_connect'.tried \in {0, 3}
                  /\ last_connect'.tried = 0 => (port = "none" /\ last_connect'.detect)
                  /\ last_connect'.sleeps = ExpectedSleeps(last_connect'.tried)
                  /\ use_mock'
                  /\ ~hardware_available']_vars

C13_Witness ==
    /\ last_connect.called
    /\ last_connect.opened
    /\ last_connect.tried = 3
    /\ last_connect.sleeps = <<1, 2>>
    /\ ~use_mock
    /\ ser = "open"

\* Every sample in the buffer is synthetic.
OnlySynthetic == \A i \in 1..Len(buffer) : buffer[i].src = "mock"

\* C14: connect() with synthetic mode forced or without the serial library
\* leaves the collector in synthetic mode with hardware_available false,
\* runs no port detection and opens nothing; the stream that follows holds
\* only synthetic samples.
C14_ForcedMockSkipsHardware ==
    [][/\ (pc = "constructed" /\ (use_mock \/ ~has_serial)) =>
              /\ use_mock'
              /\ ~hardware_available'
              /\ ~TouchesHardware
              /\ ser' = "none"
       /\ (use_mock' /\ ser' = "none") => OnlySynthetic']_vars

C14_Witness ==
    /\ ~has_serial
    /\ pc = "streaming"
    /\ use_mock
    /\ ser = "none"
    /\ port = "set"
    /\ Len(buffer) >= 2

\* C15: once stream() is running its loop ends only by the external stop
\* signal; no loop iteration ends the session or lets an exception out.
C15_OnlyStopEnds ==
    [][pc = "streaming" =>
          \/ pc' = "streaming"
          \/ pc' = "stopped" /\ iterations' = iterations]_vars

C15_Witness ==
    /\ pc = "streaming"
    /\ failed_windows >= 1
    /\ last_connect.called
    /\ ~last_connect.opened
    /\ last_connect.tried = 3

\* C16: a window transform that raises emits no signature, leaves the
\* since-last-emission counter at 0 and the buffer as it is, and the loop
\* goes on.
C16_FailedWindowEmitsNothing ==
    [][(iterations' # iterations /\ last_window' \in {"raises", "write_raises"}) =>
          /\ signatures_generated' = signatures_generated
          /\ last_emit' = last_emit
          /\ samples_since_last' = 0
          /\ Len(buffer') = window_size
          /\ buffer' = DequeAppend(buffer, buffer'[Len(buffer')], window_size)
          /\ pc' = "streaming"]_vars

\* C20: the stop signal ends stream() from every streaming state; the
\* output file and the hardware channel are not left open, no signature is
\* emitted by it or after it, and nothing runs after it.
C20_StopClosesAll ==
    [][/\ pc = "streaming" => ENABLED Stop
       /\ pc' = "stopped" =>
              /\ ser' # "open"
              /\ out_handle' # "open"
              /\ out_handle = "open" => out_handle' = "closed"
              /\ signatures_generated' = signatures_generated
              /\ last_emit' = last_emit
       /\ pc # "stopped"]_vars

C20_Witness ==
    /\ pc = "stopped"
    /\ out_handle = "closed"
    /\ ser = "closed"
    /\ ~use_mock
    /\ signatures_generated >= 1
    /\ samples_since_last >= 1

\* Two characters that are the same letter, in either case.
SameLetter(a, b) ==
    a = b \/ \E i \in 1..26 : {a, b} = {LowerCase[i], UpperCase[i]}

BeginsWith(t, word) ==
    Len(t) >= Len(word) /\ \A i \in 1..Len(word) : SameLetter(t[i], word[i])

\* A text without the whitespace at its two ends.
Inked(t) == {i \in 1..Len(t) : t[i] \notin Whitespace}
Trimmed(t) ==
    LET ink == Inked(t)
    IN  IF ink = {}
        THEN <<>>
        ELSE SubSeq(t, CHOOSE i \in ink : \A j \in ink : i <= j,
                       CHOOSE i \in ink : \A j \in ink : j <= i)

ControlWords ==
    {<<"C", "M", "D", ":">>, <<"S", "T", "A", "T", "U", "S", ":">>,
     <<"E", "R", "R", "O", "R", ":">>, <<"I", "N", "F", "O", ":">>}

IsControlLine(t) ==
    LET u == Trimmed(t) IN \E word \in ControlWords : BeginsWith(u, word)

\* The text of the line read in the latest iteration.
LineText == decode_ascii(line)
LineRead == last_read \in {"dropped", "sample"}

\* C17: parse_line returns no sample for a line that, trimmed, is empty or
\* begins in any letter case with CMD:, STATUS:, ERROR: or INFO:, and the
\* iteration that reads such a line appends nothing to the window buffer.
C17_ControlLinesDropped ==
    [][(iterations' # iterations /\ LineRead'
            /\ (Trimmed(LineText') = <<>> \/ IsControlLine(LineText'))) =>
        /\ last_read' = "dropped"
        /\ ~parsed'.ok
        /\ buffer' = buffer
        /\ sample_count' = sample_count]_vars

C17_Witness ==
    /\ last_read = "dropped"
    /\ line = <<"0x80", " ", "i", "n", "f", "o", ":", "1", ",", " ", "3", " ", "\r", "\n">>
    /\ buffer = <<>>

\* The comma-separated fields of a text, read off the places of its commas.
Commas(t) == {i \in 1..Len(t) : t[i] = ","}
NthComma(t, k) ==
    CHOOSE i \in Commas(t) : Cardinality({j \in Commas(t) : j < i}) = k - 1
Field(t, k) ==
    SubSeq(t,
           IF k = 1 THEN 1 ELSE NthComma(t, k - 1) + 1,
           IF k = Cardinality(Commas(t)) + 1 THEN Len(t) ELSE NthComma(t, k) - 1)
NonEmptyFields(t) ==
    SelectSeq([k \in 1..(Cardinality(Commas(t)) + 1) |-> Trimmed(Field(t, k))],
              NonEmpty)

\* A text without the one data prefix of `words` it begins with, if any.
WithoutPrefix(t, words) ==
    IF \E w \in words : BeginsWith(t, w)
    THEN SubSeq(t, Len(CHOOSE w \in words : BeginsWith(t, w)) + 1, Len(t))
    ELSE t

\* What the line contract gives for a text that is no control line: the
\* numbers of its fields when there are two or more and all are numbers.
Contract(f) ==
    LET number == [i \in 1..Len(f) |-> float(f[i])]
    IN  IF Len(f) >= 2 /\ \A i \in 1..Len(f) : ~number[i].raised
        THEN Parsed(number[1].value, [i \in 1..(Len(f) - 1) |-> number[i + 1].value])
        ELSE None

\* C18 as stated: a non-control line is accepted exactly when, trimmed and
\* with one leading DATA: cut off, its comma-split text has two or more
\* non-empty fields that are all numbers; the result is the first as the
\* timestamp and the others in order, and nothing otherwise.
C18_DataColonOnly ==
    (LineRead /\ ~IsControlLine(LineText)) =>
        parsed = Contract(NonEmptyFields(
                     WithoutPrefix(Trimmed(LineText), {<<"D", "A", "T", "A", ":">>})))

\* C18, amended: the same with either data prefix, DATA: or DATA|, cut off.
C18_EitherDataPrefix ==
    (LineRead /\ ~IsControlLine(LineText)) =>
        parsed = Contract(NonEmptyFields(
                     WithoutPrefix(Trimmed(LineText),
                                   {<<"D", "A", "T", "A", ":">>,
                                    <<"D", "A", "T", "A", "|">>})))

C18_Witness ==
    /\ last_read = "sample"
    /\ line = <<"D", "a", "t", "a", "|", "1", ",", " ", "3", " ", ",",
                "-", "2", ".", "5", "e", "1">>
    /\ parsed.timestamp = [kind |-> "number", m |-> 1, e |-> 0]
    /\ parsed.samples = <<[kind |-> "number", m |-> 3, e |-> 0],
                          [kind |-> "number", m |-> -25, e |-> 0]>>

\* C19: an iteration whose read is dropped (an empty read, a control line, a
\* malformed line) leaves the buffer, the since-last-emission counter, the
\* sample count and the signature count as they are, does not increment the
\* reconnect counter, calls no connect(), and the loop goes on.
C19_DroppedLineChangesNothing ==
    [][(iterations' # iterations /\ last_read' \in {"empty", "dropped"}) =>
        /\ UNCHANGED <<window_vars, sample_count, use_mock, ser, hardware_available>>
        /\ reconnect_attempts' <= reconnect_attempts
        /\ ~last_connect'.called
        /\ pc' = "streaming"]_vars

C19_Witness ==
    /\ last_read = "dropped"
    /\ IsControlLine(LineText)
    /\ Len(buffer) >= 2
    /\ samples_since_last >= 1
    /\ signatures_generated >= 1

\* C8: in synthetic mode the sample index advances only in an iteration that
\* emits the sample of that index, and never before the index's target time
\* start_time + k/fs.
C8_IndexAdvancesWithSample ==
    [][(pc = "streaming" /\ use_mock
            /\ expected_sample_count' # expected_sample_count) =>
        (sample_count' = sample_count + 1 /\ late - SampleInterval >= 0)]_vars

\* C9: started in forced mock mode (with no output file, as the test runs
\* it) the run reaches streaming in mock mode and, unless a window transform
\* raises, emits a signature.
C9_MockModeEmits ==
    (pc = "constructed" /\ use_mock /\ out_handle = "none") ~>
        (/\ pc = "streaming"
         /\ use_mock
         /\ ~hardware_available
         /\ (signatures_generated >= 1 \/ failed_windows >= 1))

\* C10: the loop does not stay in hardware mode with every read raising a
\* read error: it falls back to synthetic mode (or a read returns).
C10_ReadFailuresFallBack ==
    []<>(~(pc = "streaming" /\ ~use_mock /\ last_read = "error"))

\* The defects of a processor configuration, one by one.
BadRate(a) == ~(a.fs > 0)
BlankPassphrase(a) ==
    Len(a.passphrase) = Cardinality({i \in 1..Len(a.passphrase) :
                                         a.passphrase[i] \in WhitespaceCodes})
NoBands(a) == Cardinality(a.bands) = 0
BadBand(a) ==
    \E b \in a.bands : ~(b[1] < b[2]) \/ b[1] < 0 \/ b[2] * 2 > a.fs
ProcessorDefect(a) == BadRate(a) \/ BlankPassphrase(a) \/ NoBands(a) \/ BadBand(a)

\* C21: BrainwaveProcessor(fs, passphrase, bands) raises at its validation
\* exactly when the rate is not positive, the passphrase is empty or white
\* space only, there is no band, or a band has low >= high, low < 0 or
\* high > fs/2; a construction that raises creates no processor and derives
\* no key (no random salt is drawn).
C21_ProcessorValidation ==
    (pc \in {"proc_invalid", "proc_failed", "proc_built"}) =>
        /\ ProcessorDefect(args) <=> pc = "proc_invalid"
        /\ pc # "proc_built" => processor[Session] = NoProcessor /\ entropy = 0
        /\ pc = "proc_built" => processor[Session].key # <<>>

C21_Witness ==
    /\ pc = "proc_invalid"
    /\ args.fs = DEFAULT_FS
    /\ args.passphrase = <<32, 9>>
    /\ args.bands = DEFAULT_BANDS

\* The defects of a collector configuration.
CollectorDefect(a) ==
    a.step > a.window \/ ~(a.window > 0) \/ ~(a.step > 0) \/ ~(a.baud > 0)

\* The configuration errors of a run of main(), which uses the default bands.
ConfigError(a) ==
    CollectorDefect(a) \/ ProcessorDefect([a EXCEPT !.bands = DEFAULT_BANDS])

\* C22: SerialCollector(...) raises when step > window, or when window, step
\* or baud is not positive; and main() with any configuration error ends
\* before connect(): no connection is tried, no port is opened, no sample is
\* acquired and no signature is emitted.
C22_ConfigErrorsBeforeConnect ==
    /\ CollectorDefect(args) => pc \notin {"coll_built", "coll_failed", "constructed"}
    /\ ConfigError(args) =>
           /\ pc \notin {"constructed", "connected", "streaming", "error", "stopped"}
           /\ ~last_connect.called
           /\ ser = "none"
           /\ ~hardware_available
           /\ sample_count = 0
           /\ signatures_generated = 0

C22_Witness ==
    /\ pc = "coll_invalid"
    /\ args.step > args.window
    /\ args.window > 0
    /\ args.baud > 0

\* The command a mode is forwarded as.
CommandOf(mode) ==
    IF mode = "authenticated" THEN "MOCK_AUTH\n"
    ELSE IF mode = "impostor" THEN "MOCK_IMP\n" ELSE ""

\* C23: set_mock_mode(m) with a valid mode sets the generator's mode to m in
\* every connection state and writes MOCK_AUTH or MOCK_IMP to the port if and
\* only if the hardware is available and the port is open; a write that fails
\* raises nothing and keeps the new mode; an invalid mode raises, keeps the
\* old mode and writes nothing.
C23_ModeSwitch ==
    [][LET c == last_set'
       IN  c.n # last_set.n =>
           IF c.mode \in {"authenticated", "impostor"}
              THEN /\ mock_mode' = c.mode
                   /\ ~c.raised
                   /\ c.cmd # "" <=> (hardware_available /\ ser = "open")
                   /\ c.cmd # "" => c.cmd = CommandOf(c.mode)
                   /\ tx' = IF c.cmd # "" /\ ~c.failed THEN Append(tx, c.cmd) ELSE tx
              ELSE /\ c.raised
                   /\ mock_mode' = mock_mode
                   /\ c.cmd = ""
                   /\ tx' = tx]_vars

C23_Witness ==
    /\ last_set.n = 2
    /\ last_set.mode = "impostor"
    /\ last_set.failed
    /\ mock_mode = "impostor"
    /\ Len(tx) = 1
    /\ tx[1] = "MOCK_AUTH\n"

\* The two measures of a sample list against a threshold given in
\* hundredths: the root mean square by its square.
RmsOver(q, t) == Len(q) * t * t < SumSquares(q)
RmsUnder(q, t) == SumSquares(q) < Len(q) * t * t
PeakOver(q, t) == \E i \in 1..Len(q) : q[i] > t \/ q[i] < -t
PeakUnder(q, t) == \A i \in 1..Len(q) : q[i] < t /\ q[i] > -t

TooStrong(q) == PeakOver(q, 10000) \/ RmsOver(q, 5000)
TooWeak(q) == PeakUnder(q, 10) /\ RmsUnder(q, 5)
Normal_(q) == ~RmsUnder(q, 50) /\ ~RmsOver(q, 1000) /\ ~PeakOver(q, 5000)

\* C24: get_signal_quality gives exactly one class: poor when peak > 100 or
\* rms > 50; otherwise poor when peak < 0.1 and rms < 0.05; otherwise good
\* when 0.5 <= rms <= 10 and peak <= 50; otherwise fair; and poor with rms and
\* peak 0 for an empty list.
C24_QualityClass ==
    quality.called =>
        LET q == quality.samples
            c == quality.info.quality
        IN  IF q = <<>>
            THEN c = "poor" /\ quality.info.sumsq = 0 /\ quality.info.peak = 0
            ELSE /\ c \in {"poor", "good", "fair"}
                 /\ c = "poor" <=> (TooStrong(q) \/ TooWeak(q))
                 /\ c = "good" <=> (~TooStrong(q) /\ ~TooWeak(q) /\ Normal_(q))

C24_Witness ==
    /\ quality.called
    /\ quality.samples = <<-9, 0>>
    /\ quality.info.quality = "fair"

\* The k most recent entries of a buffer.
Latest(buf, k) == [i \in 1..k |-> buf[Len(buf) - k + i]]

\* C25: the quality check runs in exactly the iterations that accept a sample
\* whose count is a multiple of the check interval, over the most recent
\* min(span, buffered) samples; and with or without it the iteration appends
\* the sample, decides the emission, sets the since-last-emission counter,
\* keeps the source mode and stays in the loop by the same rule.
C25_QualityCheckInformational ==
    [][iterations' # iterations =>
         LET accepted == sample_count' = sample_count + 1
             ready == Len(buffer') = window_size /\ samples_since_last + 1 >= step_size
         IN  /\ last_check'.ran <=>
                    (accepted /\ sample_count' % QualityCheckInterval = 0)
             /\ last_check'.ran =>
                    last_check'.over =
                        Latest(buffer', IF Len(buffer') < QualitySpan
                                        THEN Len(buffer') ELSE QualitySpan)
             /\ accepted =>
                    /\ Len(buffer') = IF Len(buffer) < window_size
                                      THEN Len(buffer) + 1 ELSE window_size
                    /\ buffer'[Len(buffer')].seq = sample_count'
                    /\ \A i \in 1..(Len(buffer') - 1) :
                           buffer'[i] = buffer[Len(buffer) - (Len(buffer') - 1) + i]
                    /\ (compute_calls' = compute_calls + 1) <=> ready
                    /\ ~ready => compute_calls' = compute_calls
                    /\ samples_since_last' = IF ready THEN 0 ELSE samples_since_last + 1
                    /\ use_mock' = use_mock
                    /\ pc' = pc]_vars

C25_Witness ==
    /\ last_check.ran
    /\ Len(buffer) > QualitySpan
    /\ Len(last_check.over) = QualitySpan
    /\ last_window = "ok"
    /\ pc = "streaming"

\* The arrival number of the last sample of a window.
LastArrival(w) == w[Len(w)].seq

\* C26: the transform of a window runs inside the acquisition loop: at most
\* one transform is in flight, no sample is acquired while one is, and each
\* signature emitted is for a window whose last sample arrived after the last
\* sample of the window emitted before it.
C26_OneTransformInOrder ==
    [][/\ \A v \in in_flight', w \in in_flight' : v = w
       /\ in_flight # {} => sample_count' = sample_count /\ buffer' = buffer
       /\ (signatures_generated' # signatures_generated /\ prev_emit'.win # <<>>) =>
              LastArrival(prev_emit'.win) < LastArrival(last_emit'.win)]_vars

C26_Witness ==
    /\ in_flight = {}
    /\ signatures_generated = 2
    /\ failed_windows = 1
    /\ prev_emit.win # <<>>
    /\ LastArrival(prev_emit.win) + 1 < LastArrival(last_emit.win)

\* C27: with an output file, one line is appended for each signature emitted
\* and none for a window that failed: at every point of the session the
\* number of lines written equals the number of signatures generated.
C27_LinePerSignature ==
    (pc \in {"streaming", "stopped"} /\ out_handle \in {"open", "closed"}) =>
        lines_written = signatures_generated

\* A line holds the word READY (CORTEXKEY_READY holds it too).
Marked(text) ==
    \E i \in 1..Len(text) :
        /\ i + 4 <= Len(text)
        /\ text[i] = "R" /\ text[i + 1] = "E" /\ text[i + 2] = "A"
        /\ text[i + 3] = "D" /\ text[i + 4] = "Y"

\* The drain has read and discarded lines up to its first marker line, none
\* of them buffered.
DrainedUntilMarker ==
    /\ \A i \in 1..(Len(drain.log) - 1) : ~Marked(drain.log[i])
    /\ pc = "draining" => \A i \in 1..Len(drain.log) : ~Marked(drain.log[i])
    /\ pc \in {"draining", "connected"} =>
           /\ buffer = <<>>
           /\ sample_count = 0
           /\ hardware_available
           /\ ser = "open"
           /\ ~use_mock

\* C28 as claimed: the drain ends only at a marker line or at the timeout.
C28_MarkerOrTimeout ==
    /\ DrainedUntilMarker
    /\ pc = "connected" =>
           \/ drain.log # <<>> /\ Marked(drain.log[Len(drain.log)])
           \/ drain.clock >= DrainDeadline

\* C28, amended: after the open, lines are read and discarded until a marker
\* line is read, the timeout has elapsed or a read raises; none of them
\* reaches the window buffer; the drain always ends, and the collector is in
\* hardware mode when it has.
C28_DrainEnds ==
    /\ [](/\ DrainedUntilMarker
          /\ pc = "connected" =>
                 \/ drain.cause = "marker" /\ Marked(drain.log[Len(drain.log)])
                 \/ drain.cause = "timeout" /\ drain.clock >= DrainDeadline
                 \/ drain.cause = "error"
          /\ drain.clock < DrainDeadline + ReadTimeout)
    /\ (pc = "draining" ~> pc = "connected")

C28_Witness ==
    /\ pc = "connected"
    /\ drain.cause = "error"
    /\ Len(drain.log) = 2
    /\ drain.clock < DrainDeadline

\* C29: while the reader thread exists, every read and write of the reader's
\* ring buffer and of its mode flags is made holding the reader's lock; get_window, get_latest and
\* get_signal_stats return copies taken under the lock; the buffer never
\* holds more than WINDOW_SIZE samples, and get_window returns nothing until
\* it holds exactly WINDOW_SIZE.
C29_AllUnderLock ==
    /\ \A a \in reader.accesses : a.threaded => a.locked
    /\ reader.result.kind \in {"none", "None", "zeros", "copy"}
    /\ Len(reader.buffer) <= WINDOW_SIZE
    /\ (reader.op = "get_window" /\ reader.result.kind = "copy") =>
           Len(reader.result.value) = WINDOW_SIZE

\* C30: once set_mock_mode(m) has returned, the buffer holds no sample that
\* was generated under another mode than m.
C30_NoStaleSample ==
    (reader.op = "set_mock_mode" /\ reader.cpc = "idle") =>
        \A i \in 1..Len(reader.buffer) : reader.buffer[i] = reader.mock_mode

\* C32: stream() entered outside mock mode without an open port raises
\* ConnectionError at once: the output file is not opened, no sample is
\* acquired, and no field of the collector changes.
C32_NotConnectedFailsFirst ==
    [][(pc = "connected" /\ pc' # pc /\ ~use_mock /\ ser # "open") =>
           /\ pc' = "error"
           /\ out_handle' = out_handle
           /\ sample_count' = sample_count
           /\ buffer' = buffer
           /\ signatures_generated' = signatures_generated
           /\ UNCHANGED <<ser, port, use_mock, hardware_available, reconnect_attempts>>]_vars

C32_Witness ==
    /\ pc = "error"
    /\ ~use_mock
    /\ ser = "closed"
    /\ out_handle = "pending"
    /\ hardware_available
    /\ sample_count = 0

\* C36: every window handed to compute_features holds samples of one source
\* only: hardware samples read before a fallback never share a window with
\* synthetic samples generated after it.
C36_WindowOfOneSource ==
    \A i, j \in DOMAIN last_emit.win : last_emit.win[i].src = last_emit.win[j].src

\* C37: every switch of stream() from hardware to synthetic restarts the
\* pacing clock: the start time is the time of the switch (nothing is late)
\* and the sample index is 0.
C37_SwitchRestartsClock ==
    [][(pc = "streaming" /\ ~use_mock /\ use_mock') =>
           (late' = 0 /\ expected_sample_count' = 0)]_vars

\* C39: a connect() made by the running stream loop opens a hardware handle
\* only when the handle opened before it is no longer open.
C39_OneHandleOpen ==
    [][(pc = "streaming" /\ last_connect'.called /\ ser' = "open" /\ ~use_mock') =>
           ser # "open"]_vars

\* C35: the mode label written with a signature line names the source that
\* is active when the signature is emitted: HARDWARE while the samples come
\* from the hardware, MOCK for every signature emitted after a fallback.
C35_LabelNamesSource ==
    [][lines_written' = lines_written + 1 =>
           mode_str = (IF use_mock THEN "MOCK" ELSE "HARDWARE")]_vars

\* C31: once a reconnect of the running read loop has failed, the reader has
\* fallen back to mock data: as long as it is left running in that state the
\* loop goes on to append a synthetic sample.
C31_FallbackFeedsMock ==
    (svc.fallen /\ svc.running) ~> (svc.last = "mock" \/ ~svc.fallen \/ ~svc.running)

\* C33: at most one read-loop thread is alive at any time, and when start()
\* has just returned on a connected reader a read loop is alive and
\* _running is true.
C33_OneReadLoop ==
    /\ Cardinality({t \in Loops : svc.loops[t] # "none"}) <= 1
    /\ (svc.ret = "start" /\ svc.connected) =>
           (svc.running /\ \E t \in Loops : svc.loops[t] # "none")

\* C38: while the reader reports hardware_mode after a successful connect()
\* and a start() that has returned since, every sample appended comes from
\* the serial port.
C38_HardwareModeReadsPort ==
    (svc.hardware_mode /\ svc.settled /\ svc.last # "none") => svc.last = "serial"

\* C34: at most one _push_loop thread is active at any time, whatever the
\* order of auth_start and auth_stop, and the authenticated/denied decision
\* is taken at most once per scan, with at least chunks_needed chunks
\* counted.
C34_OnePushLoop ==
    /\ Cardinality({t \in Pushers : push.loops[t] # "none"}) <= 1
    /\ push.decided <= 1
    /\ push.decided > 0 => push.chunks >= chunks_needed

====
